---- MODULE Spec2Model ----
(***************************************************************************)
(* Model of the authenticated session core of src/src/App.jsx: the token   *)
(* store (saveTokens / getTokens / clearTokens over localStorage), the     *)
(* single-flight refresher (refreshAccessToken and the module-level        *)
(* refreshPromise), the request gateway (authenticatedFetch) and the flows *)
(* that drive them (mount effect, proactive timer, login, logout).         *)
(*                                                                         *)
(* One action is one task of the JavaScript event loop together with the   *)
(* promise continuations it makes runnable: the browser runs those to      *)
(* completion before it takes the next task, so nothing interleaves with   *)
(* them.  Time is counted in minutes.                                      *)
(***************************************************************************)
EXTENDS Integers, FiniteSets, Sequences, TLC

\* ---------------------------------------------------------------- bounds
MaxTime == 1
MaxRefresh == 2
MaxLogins == 1

\* ------------------------------------------------------ program constants
\* 5 * 60 * 1000 ms, the refresh margin
FIVE_MINUTES == 5
\* response.expires_in || 1800 (seconds)
DEFAULT_EXPIRES_IN == 30
\* response.refresh_expires_in || 1209600 (seconds)
DEFAULT_REFRESH_EXPIRES_IN == 20160
\* 30 * 60 * 1000 ms assumed for a migrated legacy token
LEGACY_EXPIRES_IN == 30
\* 14 * 24 * 60 * 60 * 1000 ms assumed for a migrated legacy token
LEGACY_REFRESH_EXPIRES_IN == 20160

\* ------------------------------------------------------------ the values
\* null where the code holds an object (a bundle, a promise result)
Null == [absent |-> TRUE]
\* Tokens are positive integers; 0 is null, undefined, '' or a removed key.
NoToken == 0
\* Session ids are strings; "" is null or a removed key.
NoSession == ""
SESSION == "s1"

\* The callers of the gateway that may be in progress at once.
CallIds == {"a", "b"}

\* Lifetimes (minutes) the backend puts in a login or refresh response;
\* 0 stands for a response without the field.
ExpiresInChoices == {0, 2}
RefreshExpiresInChoices == {0}

\* ======================================================== TOKEN STORE ====
\* localStorage: the three keys the token store owns.
EmptyStorage ==
  [auth_tokens |-> Null, access_token |-> NoToken, session_id |-> NoSession]

\* saveTokens(response), lines 21-34, at time t
saveTokens(response, t) ==
  LET tokens == [access_token |-> response.access_token,
                 refresh_token |-> response.refresh_token,
                 session_id |-> response.session_id,
                 expires_at |-> t + (IF response.expires_in = 0
                                       THEN DEFAULT_EXPIRES_IN
                                       ELSE response.expires_in),
                 refresh_expires_at |-> t + (IF response.refresh_expires_in = 0
                                               THEN DEFAULT_REFRESH_EXPIRES_IN
                                               ELSE response.refresh_expires_in)]
  IN [auth_tokens |-> tokens,
      access_token |-> tokens.access_token,
      session_id |-> tokens.session_id]

\* clearTokens(), lines 76-80
clearTokens(st) == EmptyStorage

\* The comparison of line 43.
RefreshStillValid_Always(t, tokens) == TRUE
RefreshStillValid(t, tokens) == t < tokens.refresh_expires_at

\* getTokens(), lines 37-73, at time t: the value returned and the storage left.
getTokens_NoPersist(st, t) ==
  IF st.auth_tokens # Null
    THEN IF RefreshStillValid(t, st.auth_tokens)
           THEN [tokens |-> st.auth_tokens, st |-> st]
           ELSE [tokens |-> Null, st |-> clearTokens(st)]
    ELSE IF st.access_token # NoToken /\ st.session_id # NoSession
           THEN [tokens |-> [access_token |-> st.access_token,
                             refresh_token |-> 0,
                             session_id |-> st.session_id,
                             expires_at |-> t + LEGACY_EXPIRES_IN,
                             refresh_expires_at |-> t + LEGACY_REFRESH_EXPIRES_IN],
                 st |-> st]
           ELSE [tokens |-> Null, st |-> st]
getTokens(st, t) ==
  IF st.auth_tokens # Null
    THEN IF RefreshStillValid(t, st.auth_tokens)
           THEN [tokens |-> st.auth_tokens, st |-> st]
           ELSE [tokens |-> Null, st |-> clearTokens(st)]
    ELSE IF st.access_token # NoToken /\ st.session_id # NoSession
           THEN LET tokens == [access_token |-> st.access_token,
                               refresh_token |-> 0,
                               session_id |-> st.session_id,
                               expires_at |-> t + LEGACY_EXPIRES_IN,
                               refresh_expires_at |-> t + LEGACY_REFRESH_EXPIRES_IN]
                    \* saveTokens(tokens): the object has no expires_in fields
                    asResponse == [access_token |-> tokens.access_token,
                                   refresh_token |-> tokens.refresh_token,
                                   session_id |-> tokens.session_id,
                                   expires_in |-> 0,
                                   refresh_expires_in |-> 0]
                IN [tokens |-> tokens, st |-> saveTokens(asResponse, t)]
           ELSE [tokens |-> Null, st |-> st]

\* getAccessToken(), lines 83-86
getAccessToken(st, t) ==
  LET g == getTokens(st, t)
  IN [token |-> IF g.tokens = Null THEN NoToken ELSE g.tokens.access_token,
      st |-> g.st]

\* isAccessTokenExpired(), lines 89-94
isAccessTokenExpired_Never(st, t) ==
  [expired |-> FALSE, st |-> getTokens(st, t).st]
isAccessTokenExpired(st, t) ==
  LET g == getTokens(st, t)
  IN [expired |-> IF g.tokens = Null THEN TRUE
                  ELSE (g.tokens.expires_at - t) < FIVE_MINUTES,
      st |-> g.st]

\* ================================================ SINGLE-FLIGHT REFRESHER ==
\* What the refresh POST can come back with: a 200 whose body parses
\* ("ok"), a 401, another non-OK status ("500"), a rejected fetch
\* ("neterr"), a 200 whose body res.json() rejects ("badjson").
RefreshFailures == {"401", "500", "neterr", "badjson"}

\* The access token (and refresh token) the backend issues in answer to
\* refresh exchange x, and to the k-th login.
RefreshIssued(x) == 10 + x
LoginIssued(k) == 20 + k

\* The bodies of a successful refresh of exchange x: a new bundle.
RefreshBodies(x) ==
  { [access_token |-> RefreshIssued(x), refresh_token |-> RefreshIssued(x),
     session_id |-> SESSION, expires_in |-> ei, refresh_expires_in |-> rei] :
       ei \in ExpiresInChoices, rei \in RefreshExpiresInChoices }

RefreshResponses(x) ==
  { [kind |-> k, data |-> Null] : k \in RefreshFailures }
    \cup { [kind |-> "ok", data |-> d] : d \in RefreshBodies(x) }

\* if (refreshPromise) return refreshPromise, lines 101-103; rp = 0 is null
ShouldJoin_Never(rp) == FALSE
ShouldJoin(rp) == rp # 0

\* The two precondition tests of lines 106 and 112.
PreconditionFails_Never(tokens, t) == FALSE
PreconditionFails(tokens, t) ==
  \/ tokens = Null
  \/ tokens.refresh_token = NoToken
  \/ t >= tokens.refresh_expires_at

\* refreshAccessToken() up to its return, lines 99-148, called at time t
\* with refreshPromise = rp when n exchanges have been started so far:
\*   "join"  the live promise is returned,
\*   "null"  the store is cleared and null is returned, no network call,
\*   "start" exchange n + 1 is posted and its promise stored and returned.
refreshAccessToken(rp, st, t, n) ==
  IF ShouldJoin(rp)
    THEN [kind |-> "join", x |-> rp, st |-> st]
    ELSE LET g == getTokens(st, t)
         IN IF PreconditionFails(g.tokens, t)
              THEN [kind |-> "null", x |-> 0, st |-> clearTokens(g.st)]
              ELSE [kind |-> "start", x |-> n + 1, st |-> g.st]

\* The .then handler, lines 125-137, run on a fetch that resolved.
ThenHandler_NoSave(res, st, t) ==
  IF res.kind = "ok"
    THEN [state |-> "fulfilled",
          value |-> saveTokens(res.data, t).auth_tokens, st |-> st]
    ELSE IF res.kind = "401"
      THEN [state |-> "fulfilled", value |-> Null, st |-> clearTokens(st)]
      ELSE [state |-> "rejected", value |-> Null, st |-> st]
ThenHandler(res, st, t) ==
  IF res.kind # "ok" /\ res.kind # "badjson"
    THEN IF res.kind = "401"
           THEN [state |-> "fulfilled", value |-> Null, st |-> clearTokens(st)]
           ELSE [state |-> "rejected", value |-> Null, st |-> st]
    ELSE IF res.kind = "badjson"
           THEN [state |-> "rejected", value |-> Null, st |-> st]
           ELSE LET saved == saveTokens(res.data, t)
                    g == getTokens(saved, t)
                IN [state |-> "fulfilled", value |-> g.tokens, st |-> g.st]

\* The .catch handler, lines 138-142.
CatchHandler_Rethrow(p) == p
CatchHandler_NoClear(p) ==
  IF p.state = "rejected"
    THEN [state |-> "fulfilled", value |-> Null, st |-> p.st]
    ELSE p
CatchHandler(p) ==
  IF p.state = "rejected"
    THEN [state |-> "fulfilled", value |-> Null, st |-> clearTokens(p.st)]
    ELSE p

\* The promise chain fetch(...).then(...).catch(...), lines 117-142: how the
\* promise settles and the storage it leaves.
RefreshChain(res, st, t) ==
  CatchHandler(IF res.kind = "neterr"
                 THEN [state |-> "rejected", value |-> Null, st |-> st]
                 ELSE ThenHandler(res, st, t))

\* The .finally handler, lines 143-145: the value refreshPromise is left with.
FinallyHandler_Keep(rp) == rp
FinallyHandler(rp) == 0

\* setupProactiveTokenRefresh(), lines 555-576, called at time t: the time
\* the timer it sets is due (-1: no timer) and the storage left.
setupProactiveTokenRefresh_NoMargin(st, t) ==
  LET g == getTokens(st, t)
  IN IF g.tokens = Null
       THEN [due |-> -1, st |-> g.st]
       ELSE LET timeUntilExpiry == g.tokens.expires_at - t
            IN [due |-> IF timeUntilExpiry > 0 THEN t + timeUntilExpiry ELSE -1,
                st |-> g.st]
setupProactiveTokenRefresh(st, t) ==
  LET g == getTokens(st, t)
  IN IF g.tokens = Null
       THEN [due |-> -1, st |-> g.st]
       ELSE LET timeUntilExpiry == g.tokens.expires_at - t
                refreshTime == timeUntilExpiry - FIVE_MINUTES
            IN [due |-> IF refreshTime > 0 THEN t + refreshTime ELSE -1,
                st |-> g.st]

\* ================================================================ STATE ==
VARIABLES
  now,            \* Date.now(), in minutes
  storage,        \* localStorage: auth_tokens, access_token, session_id
  refreshPromise, \* the module-level refreshPromise: 0, or the exchange it awaits
  posts,          \* the refresh POSTs sent and not yet settled
  nRefresh,       \* how many refresh POSTs have been sent
  calls,          \* the authenticatedFetch calls in progress, by caller
  mount,          \* the mount effect of lines 512-552
  proactive,      \* the timer of setupProactiveTokenRefresh and its callback
  login,          \* handleFormSubmit: the login POST
  logout,         \* handleLogout: the logout POST
  event,          \* what the last task did (history)
  reader,         \* readSSEStream: the stream, the reader, the buffer
  statusSteps,    \* the statusSteps state of line 472
  thinkingMessageIdRef, \* thinkingMessageIdRef.current: 0 is null
  messages,       \* the messages state of line 407
  isLoading,      \* the isLoading state of line 409
  isAuthenticated,     \* the isAuthenticated state of line 410
  showSessionExpired,  \* the showSessionExpired state of line 429
  statusBanner,   \* the statusBanner state of line 471
  statusTimerRef, \* statusTimerRef.current: 0 is null, else the timer's id
  abortControllerRef,  \* abortControllerRef.current: 0 is null
  chat            \* the chat requests: where sendMessage and what it started stand

vars == <<now, storage, refreshPromise, posts, nRefresh, calls, mount,
          proactive, login, logout, event, reader, statusSteps,
          thinkingMessageIdRef, messages, isLoading, isAuthenticated,
          showSessionExpired, statusBanner, statusTimerRef,
          abortControllerRef, chat>>

\* The session core, and the chat stream: the two do not touch each other's
\* state.
sessionVars == <<now, storage, refreshPromise, posts, nRefresh, calls, mount,
                 proactive, login, logout>>
chatVars == <<messages, isLoading, isAuthenticated, showSessionExpired,
              statusBanner, statusTimerRef, abortControllerRef, chat>>
streamVars == <<reader, statusSteps, thinkingMessageIdRef, chatVars>>

\* Responses of the target request: a status, or "neterr" for a fetch that
\* rejects.
TargetStatuses == {"200", "401", "neterr"}

\* new Response(..., { status: 401 }), lines 163-167
Local401 == [from |-> "local", status |-> "401"]
Threw == [from |-> "threw", status |-> ""]
\* The AbortError a fetch rejects with when its signal is aborted.
AbortError == [from |-> "threw", status |-> "abort"]

\* The signal the fetch of lines 176-179 is given ({...options, headers})
\* and the one the retry of lines 187-191 is given.
FirstSignal(options) == options.signal
RetrySignal_Dropped(options) == "none"
RetrySignal(options) == options.signal

\* An authenticatedFetch call that is not in progress.  pc is where a call
\* stands: "pre" awaits the refresh of line 158, "sent1" the fetch of line
\* 176, "post" the refresh of line 183, "sent2" the fetch of line 187.
\* tok is the token in the Authorization header, tok1 the one the first
\* fetch carried, issues the fetches of the target made so far, x401 the
\* refresh exchange the call started after a 401 (0: none), near whether
\* the call awaits the refresh of line 158 for a token one minute from expiry.
\* signal is options.signal ("none": the caller passed none, "own": the
\* signal of the caller's AbortController), carried whether the fetch in
\* flight was given it.
IdleCall ==
  [pc |-> "idle", wait |-> 0, issues |-> 0, tok |-> NoToken, tok1 |-> NoToken,
   x401 |-> 0, near |-> FALSE, signal |-> "none", carried |-> FALSE]

\* The options of a caller that passes no signal (authenticatedFetch(url)).
NoOptions == [signal |-> "none"]

\* What a task recorded: the call of refreshAccessToken() it made (rc), the
\* authenticatedFetch calls that returned in it (ret), the fetches of the
\* target it issued (sent).
NoRC == [made |-> FALSE]
NoRet == [c \in {} |-> Null]
NoEvent ==
  [type |-> "none", rc |-> NoRC, ret |-> NoRet, sent |-> NoRet, got |-> Null]

\* A chat request that has not been sent; chat holds the requests that
\* were.  pc is where its sendMessage
\* stands: "fetch" awaits authenticatedFetch (line 1259), "body" awaits
\* res.json() (line 1280), "reading" awaits reader.read() (line 1089),
\* "returned" is after its finally block.
\* aborted is the state of its AbortController's signal, locked whether its
\* reader holds the lock, frames the frames read from its stream, exit how
\* readSSEStream ended.  usage and load count its processCompleteResponse
\* calls that await fetchUsageSummary (line 1062) and loadSession (line
\* 1068), clears its timers of line 968 that are pending, longer says
\* whether its timer of line 1214 is pending.  outcomes lists the terminal
\* outcomes applied to it (history).
IdleChat ==
  [pc |-> "idle", aborted |-> FALSE, locked |-> FALSE, frames |-> 0,
   exit |-> "", usage |-> 0, load |-> 0, clears |-> 0, longer |-> FALSE,
   outcomes |-> <<>>]
Request(c) == IF c \in DOMAIN chat THEN chat[c] ELSE IdleChat

\* No chat request was sent, no chat stream is being read, no status step
\* is shown: the state of lines 407-487.
NoReader == [pc |-> "none"]
ChatAtRest ==
  /\ messages = <<>>
  /\ isLoading = FALSE
  /\ showSessionExpired = FALSE
  /\ statusBanner = Null
  /\ statusTimerRef = 0
  /\ abortControllerRef = 0
  /\ chat = [c \in {} |-> IdleChat]
StreamAtRest ==
  /\ reader = NoReader
  /\ statusSteps = <<>>
  /\ thinkingMessageIdRef = 0
  /\ isAuthenticated = FALSE
  /\ ChatAtRest

\* The bundles localStorage may hold when the page is loaded: saved by an
\* earlier visit, so possibly stale, possibly migrated from the legacy keys.
\* An access token that expires at 1 is within the margin at once, one that
\* expires at 5 enters it at time 1, one that expires at 6 has its
\* proactive timer due at time 1; a refresh expiry of 1 passes at time 1.
BootBundles ==
  { [access_token |-> 1, refresh_token |-> rt, session_id |-> SESSION,
     expires_at |-> ea, refresh_expires_at |-> rea] :
       rt \in {NoToken, 1}, ea \in {1, 5, 6}, rea \in {1, 20160} }
    \cup { [access_token |-> 1, refresh_token |-> 1, session_id |-> SESSION,
            expires_at |-> 6, refresh_expires_at |-> 0] }

BootStorages ==
  { EmptyStorage,
    [auth_tokens |-> Null, access_token |-> 1, session_id |-> SESSION] }
    \cup { [auth_tokens |-> b, access_token |-> b.access_token,
            session_id |-> b.session_id] : b \in BootBundles }

Init ==
  /\ now = 0
  /\ storage \in BootStorages
  /\ refreshPromise = 0
  /\ posts = {}
  /\ nRefresh = 0
  /\ calls = [c \in CallIds |-> IdleCall]
  /\ mount = [pc |-> "pending", wait |-> 0]
  /\ proactive = [due |-> -1, wait |-> 0]
  /\ login = [pending |-> FALSE, count |-> 0]
  /\ logout = [pending |-> FALSE]
  /\ event = NoEvent
  /\ StreamAtRest

\* ------------------------------------------------- calling the refresher
\* What is recorded of one call of refreshAccessToken(): was a refresh
\* live, did the stored record lack a usable refresh token (read off
\* localStorage directly), what the call did.
UnusableRecord(st, t) ==
  \/ st.auth_tokens = Null
  \/ st.auth_tokens.refresh_token = NoToken
  \/ t >= st.auth_tokens.refresh_expires_at

RefreshCall(r, st) ==
  [made |-> TRUE,
   live |-> refreshPromise # 0,
   unusable |-> UnusableRecord(st, now),
   kind |-> r.kind,
   cleared |-> r.st = EmptyStorage]

\* The refresher's own state after the call r of refreshAccessToken(): a
\* started exchange is posted and its promise stored, lines 117-147.
Refreshed_NotStored(r) ==
  /\ r.kind = "start" => nRefresh < MaxRefresh
  /\ refreshPromise' = refreshPromise
  /\ posts' = IF r.kind = "start" THEN posts \cup {r.x} ELSE posts
  /\ nRefresh' = IF r.kind = "start" THEN nRefresh + 1 ELSE nRefresh
Refreshed(r) ==
  /\ r.kind = "start" => nRefresh < MaxRefresh
  /\ refreshPromise' = IF r.kind = "start" THEN r.x ELSE refreshPromise
  /\ posts' = IF r.kind = "start" THEN posts \cup {r.x} ELSE posts
  /\ nRefresh' = IF r.kind = "start" THEN nRefresh + 1 ELSE nRefresh

NotRefreshed == UNCHANGED <<refreshPromise, posts, nRefresh>>

\* ===================================================== REQUEST GATEWAY ====
\* The pre-check of line 156: !token || isAccessTokenExpired(), with the
\* storage the evaluation leaves (the second operand runs only if the
\* first is false).
PreCheck_TokenOnly(st, t) ==
  LET a == getAccessToken(st, t)
  IN [refresh |-> a.token = NoToken, token |-> a.token, st |-> a.st]
PreCheck(st, t) ==
  LET a == getAccessToken(st, t)
  IN IF a.token = NoToken
       THEN [refresh |-> TRUE, token |-> NoToken, st |-> a.st]
       ELSE LET e == isAccessTokenExpired(a.st, t)
            IN [refresh |-> e.expired, token |-> a.token, st |-> e.st]

\* if (response.status === 401), line 182: tested once, on the response of
\* the first fetch (issues counts the fetches of the target made so far).
MayRetry_Loop(status, issues) == status = "401"
MayRetry(status, issues) == status = "401" /\ issues = 1

\* return response, line 194: what the call returns when the refresh after
\* a 401 yields null.
AfterFailedRefresh_Local(response) == Local401
AfterFailedRefresh(response) == response

\* return response, line 198, after the retry: first is the response of
\* line 176, second the one line 187 assigned over it.
FinalResponse_First(first, second) == first
FinalResponse(first, second) == second

\* The caller of the gateway, as loadUserProfile lines 660-667 (and every
\* other caller): a 401 response makes it clear the store.
CallerAfter(resp, st) ==
  IF resp.status = "401" THEN clearTokens(st) ELSE st

\* What the stored record says of the access token at the entry of a call,
\* read off localStorage directly.
EntryNeedsRefresh(st, t) ==
  \/ st.auth_tokens = Null /\ st.access_token = NoToken
  \/ st.auth_tokens # Null /\ st.auth_tokens.expires_at - t < FIVE_MINUTES

OneFromExpiry(st, t) ==
  st.auth_tokens # Null /\ st.auth_tokens.expires_at - t = 1

\* The recorded expiry of the bundle a token is taken from is still ahead.
Unexpired(tokens, t) == tokens # Null /\ tokens.expires_at > t

\* What is recorded of a call that returns, and of a fetch it issues.  phase
\* is where the call returns from: "pre" and "post" from the awaits of
\* refreshAccessToken(), "first" and "second" from the fetches.
Returned(call, phase, resp) ==
  [resp |-> resp, issues |-> call.issues, phase |-> phase]
Sent(n, token, unexpired, near) ==
  [n |-> n, token |-> token, unexpired |-> unexpired, near |-> near]

\* authenticatedFetch(url, options) is called: lines 151-179, up to the
\* first await that suspends.
StartCallTask(c, options) ==
  /\ mount.pc # "pending"
  /\ calls[c].pc = "idle"
  /\ LET pc0 == PreCheck(storage, now)
         entry == [need |-> EntryNeedsRefresh(storage, now),
                   near |-> OneFromExpiry(storage, now)]
     IN IF pc0.refresh
          THEN LET r == refreshAccessToken(refreshPromise, pc0.st, now, nRefresh)
               IN /\ Refreshed(r)
                  /\ IF r.kind = "null"
                       THEN /\ UNCHANGED calls
                            /\ storage' = CallerAfter(Local401, r.st)
                            /\ event' = [type |-> "call", entry |-> entry, got |-> Null,
                                         rc |-> RefreshCall(r, pc0.st),
                                         ret |-> (c :> Returned(calls[c], "pre", Local401)),
                                         sent |-> NoRet]
                       ELSE /\ calls' = [calls EXCEPT ![c] =
                                 [IdleCall EXCEPT !.pc = "pre", !.wait = r.x,
                                                  !.near = entry.near,
                                                  !.signal = options.signal]]
                            /\ storage' = r.st
                            /\ event' = [type |-> "call", entry |-> entry, got |-> Null,
                                         rc |-> RefreshCall(r, pc0.st),
                                         ret |-> NoRet, sent |-> NoRet]
          ELSE /\ calls' = [calls EXCEPT ![c] =
                    [IdleCall EXCEPT !.pc = "sent1", !.issues = 1,
                                     !.tok = pc0.token, !.tok1 = pc0.token,
                                     !.signal = options.signal,
                                     !.carried = FirstSignal(options) # "none"]]
               /\ storage' = pc0.st
               /\ NotRefreshed
               /\ event' = [type |-> "call", entry |-> entry, got |-> Null, rc |-> NoRC,
                            ret |-> NoRet,
                            sent |-> (c :> Sent(1, pc0.token,
                                       Unexpired(getTokens(pc0.st, now).tokens, now),
                                       entry.near))]
  /\ UNCHANGED <<now, mount, proactive, login, logout>>

\* A caller that passes no signal and keeps no other state.
StartCall(c) ==
  /\ StartCallTask(c, NoOptions)
  /\ UNCHANGED streamVars

\* The response of a fetch of the target arrives (or the fetch rejects):
\* lines 176-199 from the await that resumes.
ResponseTask(c, status) ==
  /\ calls[c].pc \in {"sent1", "sent2"}
  /\ LET call == calls[c]
         phase == IF call.pc = "sent1" THEN "first" ELSE "second"
         this == [from |-> phase, status |-> status]
         first == [from |-> "first", status |-> "401"]
     IN IF status = "neterr"
          THEN /\ calls' = [calls EXCEPT ![c] = IdleCall]
               /\ UNCHANGED storage
               /\ NotRefreshed
               /\ event' = [type |-> "response", got |-> this, rc |-> NoRC,
                            ret |-> (c :> Returned(call, phase, Threw)),
                            sent |-> NoRet]
          ELSE IF MayRetry(status, call.issues)
            THEN LET r == refreshAccessToken(refreshPromise, storage, now, nRefresh)
                     out == AfterFailedRefresh(this)
                 IN /\ Refreshed(r)
                    /\ IF r.kind = "null"
                         THEN /\ calls' = [calls EXCEPT ![c] = IdleCall]
                              /\ storage' = CallerAfter(out, r.st)
                              /\ event' = [type |-> "response", got |-> this,
                                           rc |-> RefreshCall(r, storage),
                                           ret |-> (c :> Returned(call, "post", out)),
                                           sent |-> NoRet]
                         ELSE /\ calls' = [calls EXCEPT ![c] =
                                   [call EXCEPT !.pc = "post", !.wait = r.x,
                                                !.x401 = IF r.kind = "start"
                                                           THEN r.x ELSE 0]]
                              /\ storage' = r.st
                              /\ event' = [type |-> "response", got |-> this,
                                           rc |-> RefreshCall(r, storage),
                                           ret |-> NoRet, sent |-> NoRet]
            ELSE LET out == IF call.pc = "sent1" THEN this
                            ELSE FinalResponse(first, this)
                 IN /\ calls' = [calls EXCEPT ![c] = IdleCall]
                    /\ storage' = CallerAfter(out, storage)
                    /\ NotRefreshed
                    /\ event' = [type |-> "response", got |-> this, rc |-> NoRC,
                                 ret |-> (c :> Returned(call, phase, out)),
                                 sent |-> NoRet]
  /\ UNCHANGED <<now, mount, proactive, login, logout>>

Response(c, status) ==
  /\ ResponseTask(c, status)
  /\ UNCHANGED streamVars

\* ============================================= THE REFRESH SETTLES =========
\* The signal the fetch is given that a call issues when it resumes from its
\* await of refreshAccessToken(): line 176 (pc "pre") or line 187 ("post").
FetchSignal(call) ==
  IF call.pc = "pre" THEN FirstSignal([signal |-> call.signal])
  ELSE RetrySignal([signal |-> call.signal])

\* An authenticatedFetch call resumes from its await of refreshAccessToken()
\* with the settled promise p, lines 158-169 (pc "pre") and 183-196 ("post"):
\* the response it returns, or Null if it goes on to a fetch.  A fetch that
\* is given a signal already aborted rejects at once and the call throws.
ResumeReturns(call, p, aborted) ==
  IF p.state = "rejected" THEN Threw
  ELSE IF p.value # Null
    THEN IF FetchSignal(call) # "none" /\ aborted THEN AbortError ELSE Null
  ELSE IF call.pc = "pre" THEN Local401
  ELSE AfterFailedRefresh([from |-> IF call.issues = 1 THEN "first" ELSE "second",
                           status |-> "401"])

\* The call as it goes on to its fetch with the refreshed bundle.
ResumeSends_OldHeader(call, p) ==
  [call EXCEPT !.pc = IF call.pc = "pre" THEN "sent1" ELSE "sent2",
               !.wait = 0,
               !.near = FALSE,
               !.carried = FetchSignal(call) # "none",
               !.issues = call.issues + 1]
ResumeSends(call, p) ==
  [call EXCEPT !.pc = IF call.pc = "pre" THEN "sent1" ELSE "sent2",
               !.wait = 0,
               !.near = FALSE,
               !.carried = FetchSignal(call) # "none",
               !.issues = call.issues + 1,
               !.tok = p.value.access_token,
               !.tok1 = IF call.pc = "pre" THEN p.value.access_token ELSE call.tok1]

\* Who awaits exchange x.
CallsWaiting(x) ==
  {c \in CallIds : calls[c].pc \in {"pre", "post"} /\ calls[c].wait = x}
Waiters(x) ==
  CallsWaiting(x)
    \cup (IF mount.pc = "waiting" /\ mount.wait = x THEN {"mount"} ELSE {})
    \cup (IF proactive.wait = x THEN {"timer"} ELSE {})

\* The refresh POST of exchange x comes back with res: the handlers of
\* lines 125-145 run, then every awaiter of the promise resumes.
SettleTask(x, res) ==
  /\ x \in posts
  /\ LET p == RefreshChain(res, storage, now)
         ws == Waiters(x)
         cs == CallsWaiting(x)
         back == {c \in cs : ResumeReturns(calls[c], p, Request(c).aborted) # Null}
         \* a call that returns a 401 has its caller clear the store;
         \* the mount effect clears it on null, lines 531-535
         cleared ==
           \/ \E c \in back :
                ResumeReturns(calls[c], p, Request(c).aborted).status = "401"
           \/ "mount" \in ws /\ p.state = "fulfilled" /\ p.value = Null
         st1 == IF cleared THEN clearTokens(p.st) ELSE p.st
         \* the timer callback schedules the next refresh, lines 566-569
         again == IF "timer" \in ws /\ p.state = "fulfilled" /\ p.value # Null
                    THEN setupProactiveTokenRefresh(st1, now)
                    ELSE [due |-> proactive.due, st |-> st1]
     IN /\ posts' = posts \ {x}
        /\ refreshPromise' = FinallyHandler(refreshPromise)
        /\ calls' = [c \in CallIds |->
                       IF c \in back THEN IdleCall
                       ELSE IF c \in cs THEN ResumeSends(calls[c], p)
                       ELSE calls[c]]
        /\ mount' = IF "mount" \in ws THEN [pc |-> "done", wait |-> 0] ELSE mount
        /\ proactive' = IF "timer" \in ws
                          THEN [due |-> again.due, wait |-> 0]
                          ELSE proactive
        /\ storage' = again.st
        /\ event' = [type |-> "settle", x |-> x, kind |-> res.kind,
                     state |-> p.state, value |-> p.value, ws |-> ws,
                     rc |-> NoRC, got |-> Null,
                     ret |-> [c \in back |->
                                Returned(calls[c], calls[c].pc,
                                         ResumeReturns(calls[c], p,
                                                       Request(c).aborted))],
                     sent |-> [c \in cs \ back |->
                                Sent(calls[c].issues + 1, p.value.access_token,
                                     Unexpired(p.value, now), calls[c].near)]]
  /\ UNCHANGED <<now, nRefresh, login, logout>>

Settle(x, res) ==
  /\ SettleTask(x, res)
  /\ UNCHANGED streamVars

\* ======================================================= MOUNT EFFECT ======
\* useEffect(() => {...}, []), lines 512-552.
Mount ==
  /\ mount.pc = "pending"
  /\ LET g == getTokens(storage, now)
     IN IF g.tokens # Null /\ g.tokens.access_token # NoToken
          THEN LET e == isAccessTokenExpired(g.st, now)
               IN IF e.expired
                    THEN LET r == refreshAccessToken(refreshPromise, e.st, now, nRefresh)
                             s == setupProactiveTokenRefresh(r.st, now)
                         IN /\ Refreshed(r)
                            /\ event' = [NoEvent EXCEPT !.type = "mount",
                                                        !.rc = RefreshCall(r, e.st)]
                            /\ proactive' = [proactive EXCEPT !.due = s.due]
                            /\ IF r.kind = "null"
                                 THEN /\ mount' = [pc |-> "done", wait |-> 0]
                                      /\ storage' = clearTokens(s.st)
                                 ELSE /\ mount' = [pc |-> "waiting", wait |-> r.x]
                                      /\ storage' = s.st
                    ELSE LET s == setupProactiveTokenRefresh(e.st, now)
                         IN /\ mount' = [pc |-> "done", wait |-> 0]
                            /\ proactive' = [proactive EXCEPT !.due = s.due]
                            /\ storage' = s.st
                            /\ NotRefreshed
                            /\ event' = NoEvent
          ELSE /\ mount' = [pc |-> "done", wait |-> 0]
               /\ storage' = g.st
               /\ NotRefreshed
               /\ event' = NoEvent
               /\ UNCHANGED proactive
  /\ UNCHANGED <<now, calls, login, logout>>
  /\ UNCHANGED streamVars

\* ==================================================== PROACTIVE TIMER =====
\* The setTimeout callback of lines 563-574 runs, at or after its due time.
FireTimer ==
  /\ proactive.due >= 0
  /\ now >= proactive.due
  /\ LET r == refreshAccessToken(refreshPromise, storage, now, nRefresh)
     IN /\ Refreshed(r)
        /\ event' = [NoEvent EXCEPT !.type = "timer",
                                    !.rc = RefreshCall(r, storage)]
        /\ storage' = r.st
        /\ proactive' = [due |-> -1,
                         wait |-> IF r.kind = "null" THEN 0 ELSE r.x]
  /\ UNCHANGED <<now, calls, mount, login, logout>>
  /\ UNCHANGED streamVars

\* ============================================================== LOGIN =====
\* handleFormSubmit, lines 2388-2409: the login POST is sent.
LoginSubmit ==
  /\ mount.pc # "pending"
  /\ ~login.pending
  /\ login.count < MaxLogins
  /\ login' = [pending |-> TRUE, count |-> login.count + 1]
  /\ event' = NoEvent
  /\ UNCHANGED <<now, storage, refreshPromise, posts, nRefresh, calls, mount,
                 proactive, logout>>
  /\ UNCHANGED streamVars

\* The bodies of a successful login, the k-th.
LoginBodies(k) ==
  { [access_token |-> LoginIssued(k), refresh_token |-> LoginIssued(k),
     session_id |-> SESSION, expires_in |-> ei, refresh_expires_in |-> 0] :
       ei \in ExpiresInChoices }

\* The login POST succeeds: saveTokens(data), lines 2402-2406.
LoginOk(data) ==
  /\ login.pending
  /\ login' = [login EXCEPT !.pending = FALSE]
  /\ storage' = saveTokens(data, now)
  /\ event' = NoEvent
  /\ UNCHANGED <<now, refreshPromise, posts, nRefresh, calls, mount,
                 proactive, logout>>
  /\ UNCHANGED streamVars

\* The login POST fails: setError, lines 2397-2399 and 2407-2409.
LoginFailed ==
  /\ login.pending
  /\ login' = [login EXCEPT !.pending = FALSE]
  /\ event' = NoEvent
  /\ UNCHANGED <<now, storage, refreshPromise, posts, nRefresh, calls, mount,
                 proactive, logout>>
  /\ UNCHANGED streamVars

\* ============================================================= LOGOUT =====
\* handleLogout, lines 2100-2108: with a session id the logout POST is
\* awaited first; without one the store is cleared at once.  The task in
\* which handleLogout completes is recorded as a "logout" event.
LogoutStart ==
  /\ mount.pc # "pending"
  /\ ~logout.pending
  /\ LET g == getTokens(storage, now)
     IN IF g.tokens # Null /\ g.tokens.session_id # NoSession
          THEN /\ logout' = [pending |-> TRUE]
               /\ storage' = g.st
               /\ event' = NoEvent
          ELSE /\ logout' = [pending |-> FALSE]
               /\ storage' = clearTokens(g.st)
               /\ event' = [NoEvent EXCEPT !.type = "logout"]
  /\ UNCHANGED <<now, refreshPromise, posts, nRefresh, calls, mount,
                 proactive, login>>
  /\ UNCHANGED streamVars

\* The logout POST settles either way: clearTokens(), lines 2110-2111.
LogoutDone ==
  /\ logout.pending
  /\ logout' = [pending |-> FALSE]
  /\ storage' = clearTokens(storage)
  /\ event' = [NoEvent EXCEPT !.type = "logout"]
  /\ UNCHANGED <<now, refreshPromise, posts, nRefresh, calls, mount,
                 proactive, login>>
  /\ UNCHANGED streamVars

\* =============================================================== TIME =====
Tick ==
  /\ now < MaxTime
  /\ now' = now + 1
  /\ event' = NoEvent
  /\ UNCHANGED <<storage, refreshPromise, posts, nRefresh, calls, mount,
                 proactive, login, logout>>
  /\ UNCHANGED streamVars

Next ==
  \/ \E c \in CallIds : StartCall(c)
  \/ \E c \in CallIds, status \in TargetStatuses : Response(c, status)
  \/ \E x \in posts : \E res \in RefreshResponses(x) : Settle(x, res)
  \/ Mount
  \/ FireTimer
  \/ LoginSubmit
  \/ \E data \in LoginBodies(login.count) : LoginOk(data)
  \/ LoginFailed
  \/ LogoutStart
  \/ LogoutDone
  \/ Tick

Spec == Init /\ [][Next]_vars

\* =================================================== THE TOKEN STORE ALONE ==
\* The token store driven directly: load (getTokens), save (saveTokens),
\* clear (clearTokens) and the clock, from every content localStorage may
\* have when the page is loaded.  The refresher and the gateway are at rest.
refresherVars == <<refreshPromise, posts, nRefresh, calls, mount, proactive,
                   login, logout>>

\* The branch getTokens() takes on a storage: the record of line 38, the
\* legacy keys of line 59, or neither.
LoadPath(st) ==
  IF st.auth_tokens # Null THEN "current"
  ELSE IF st.access_token # NoToken /\ st.session_id # NoSession THEN "legacy"
  ELSE "none"

NoLoad == [path |-> "none", tokens |-> Null]

\* getTokens() is called: what it found, what it returned, and what the
\* call before it returned if that was the task just before.
Load ==
  /\ LET g == getTokens(storage, now)
     IN /\ storage' = g.st
        /\ event' = [type |-> "load", before |-> storage, at |-> now,
                     path |-> LoadPath(storage), tokens |-> g.tokens,
                     prev |-> IF event.type = "load"
                                THEN [path |-> event.path, tokens |-> event.tokens]
                                ELSE NoLoad]
  /\ UNCHANGED now
  /\ UNCHANGED refresherVars
  /\ UNCHANGED streamVars

\* The response bodies saveTokens() is handed: those of a refresh and of a
\* login, with the default refresh lifetime or one of a minute.
SavedResponses ==
  { [b EXCEPT !.refresh_expires_in = rei] :
      b \in RefreshBodies(1) \cup LoginBodies(1), rei \in {0, 1} }

Save(response) ==
  /\ storage' = saveTokens(response, now)
  /\ event' = NoEvent
  /\ UNCHANGED now
  /\ UNCHANGED refresherVars
  /\ UNCHANGED streamVars

Clear ==
  /\ storage' = clearTokens(storage)
  /\ event' = NoEvent
  /\ UNCHANGED now
  /\ UNCHANGED refresherVars
  /\ UNCHANGED streamVars

StoreInit ==
  /\ now = 0
  /\ storage \in BootStorages
  /\ refreshPromise = 0
  /\ posts = {}
  /\ nRefresh = 0
  /\ calls = [c \in CallIds |-> IdleCall]
  /\ mount = [pc |-> "pending", wait |-> 0]
  /\ proactive = [due |-> -1, wait |-> 0]
  /\ login = [pending |-> FALSE, count |-> 0]
  /\ logout = [pending |-> FALSE]
  /\ event = NoEvent
  /\ StreamAtRest

StoreNext ==
  \/ Load
  \/ \E response \in SavedResponses : Save(response)
  \/ Clear
  \/ Tick

StoreSpec == StoreInit /\ [][StoreNext]_vars

\* ===================================================== THE SSE READER =====
\* readSSEStream, lines 1077-1157.  Text is a sequence of characters; the
\* TextDecoder of lines 1079 and 1096, in stream mode, hands over the characters of
\* the chunks as they are (one character is one byte here).
NL == "\n"
Marker == <<"d", "a", "t", "a", ":", " ">>
Delimiter == <<NL, NL>>
EventPrefix == <<"e", "v", "e", "n", "t", ":">>
IdPrefix == <<"i", "d", ":">>
UpperError == <<"E", "r", "r", "o", "r">>
LowerError == <<"e", "r", "r", "o", "r">>
FormatMark == <<"_", "_", "f", "o", "r", "m", "a", "t", "_", "_">>
BackendError == <<"Backend error: ">>

\* String.prototype.startsWith, includes, substring(n), trim
startsWith(text, prefix) ==
  /\ Len(text) >= Len(prefix)
  /\ SubSeq(text, 1, Len(prefix)) = prefix

includes(text, part) ==
  \E i \in 1..(Len(text) - Len(part) + 1) :
    SubSeq(text, i, i + Len(part) - 1) = part

substring(text, n) == SubSeq(text, n + 1, Len(text))

IsSpace(ch) == ch \in {" ", NL}

trim(text) ==
  LET solid == {i \in 1..Len(text) : ~IsSpace(text[i])}
  IN IF solid = {} THEN <<>>
     ELSE SubSeq(text,
                 CHOOSE i \in solid : \A j \in solid : i <= j,
                 CHOOSE i \in solid : \A j \in solid : i >= j)

\* buffer.split('\n\n'), line 1099: the pieces between the occurrences of
\* the delimiter, taken from the left.
RECURSIVE split(_)
split(text) ==
  LET at == {i \in 1..(Len(text) - 1) : text[i] = NL /\ text[i + 1] = NL}
  IN IF at = {} THEN <<text>>
     ELSE LET i == CHOOSE k \in at : \A j \in at : k <= j
          IN <<SubSeq(text, 1, i - 1)>> \o split(SubSeq(text, i + 2, Len(text)))

\* The events the backend sends, and their JSON text.
EventNames == {"A", "B"}
JSONstringify(name) == <<"{", name, "}">>
\* JSON.parse, line 1107: whether it returns, and what.
JSONparses(text) ==
  /\ Len(text) = 3
  /\ text[1] = "{" /\ text[3] = "}"
  /\ text[2] \in EventNames
JSONparse(text) == text[2]

\* What handleSSEEvent is called with for one piece of the buffer, lines
\* 1102-1133: nothing, a decoded event, or an error event.  raw is the text
\* the piece carried.
HasErrorWord(text) == includes(text, UpperError) \/ includes(text, LowerError)

ProcessLine(line) ==
  IF startsWith(line, Marker)
    THEN LET jsonStr == substring(line, 6)
         IN IF JSONparses(jsonStr)
              THEN <<[type |-> "event", name |-> JSONparse(jsonStr),
                      raw |-> jsonStr, marked |-> TRUE]>>
              ELSE IF jsonStr # <<>> /\ trim(jsonStr) # <<>>
                     THEN <<[type |-> "error",
                             error |-> IF HasErrorWord(jsonStr)
                                         THEN jsonStr
                                         ELSE BackendError \o jsonStr,
                             raw |-> jsonStr, marked |-> TRUE]>>
                     ELSE <<>>
    ELSE IF /\ trim(line) # <<>>
            /\ ~startsWith(line, EventPrefix)
            /\ ~startsWith(line, IdPrefix)
           THEN IF HasErrorWord(line) \/ includes(line, FormatMark)
                  THEN <<[type |-> "error", error |-> trim(line),
                          raw |-> line, marked |-> FALSE]>>
                  ELSE <<>>
           ELSE <<>>

RECURSIVE ProcessLines_StopAtError(_)
ProcessLines_StopAtError(lines) ==
  IF lines = <<>> THEN <<>>
  ELSE LET first == ProcessLine(Head(lines))
       IN IF first # <<>> /\ first[1].type = "error"
            THEN first
            ELSE first \o ProcessLines_StopAtError(Tail(lines))
RECURSIVE ProcessLines(_)
ProcessLines(lines) ==
  IF lines = <<>> THEN <<>>
  ELSE ProcessLine(Head(lines)) \o ProcessLines(Tail(lines))

\* One turn of the loop on a chunk, lines 1095-1133: the buffer kept and the
\* calls of handleSSEEvent made.
ProcessChunk_NoCarry(buffer, value) ==
  LET lines == split(value)
  IN [buffer |-> lines[Len(lines)],
      handled |-> ProcessLines(SubSeq(lines, 1, Len(lines) - 1))]
ProcessChunk(buffer, value) ==
  LET lines == split(buffer \o value)
  IN [buffer |-> lines[Len(lines)],
      handled |-> ProcessLines(SubSeq(lines, 1, Len(lines) - 1))]

\* if (done) break, lines 1091-1093: the calls of handleSSEEvent made for
\* what the buffer still holds.
AtDone_Flush(buffer) == ProcessLine(buffer)
AtDone(buffer) == <<>>

\* The finally block, lines 1147-1156, reached on the exit path given:
\* whether the reader still holds its lock afterwards.
Finally_OnDoneOnly(path) == path # "done"
Finally(path) == FALSE

\* The blocks a backend may put in a stream, by kind: a JSON event, a JSON
\* text cut short, a plain error text, a blank payload, after the marker;
\* texts without the marker; and a JSON event with a framing line before
\* it (event: x) or after it (id: 7) in the same block.
BlockKinds ==
  {"A", "B", "broken", "errtext", "blank", "bareerr", "bare", "named", "numbered"}
BlockText(kind) ==
  CASE kind \in EventNames -> Marker \o JSONstringify(kind)
    [] kind = "named" -> EventPrefix \o <<"x", NL>> \o Marker \o JSONstringify("A")
    [] kind = "numbered" -> Marker \o JSONstringify("A") \o <<NL>> \o IdPrefix \o <<"7">>
    [] kind = "broken" -> Marker \o <<"{", "A">>
    [] kind = "errtext" -> Marker \o <<"o", "h", " ">> \o LowerError
    [] kind = "blank" -> Marker \o <<" ">>
    [] kind = "bareerr" -> UpperError \o <<"!">>
    [] kind = "bare" -> IdPrefix \o <<"7">>

\* The streams: at most MaxBlocks blocks, each closed by the blank line,
\* except possibly the last.
MaxBlocks == 2
Streams ==
  UNION { { [i \in 1..n |-> [kind |-> ks[i], closed |-> i < n \/ closedLast]] :
              ks \in [1..n -> BlockKinds], closedLast \in BOOLEAN } :
          n \in 0..MaxBlocks }

RECURSIVE StreamText(_)
StreamText(blocks) ==
  IF blocks = <<>> THEN <<>>
  ELSE BlockText(Head(blocks).kind)
         \o (IF Head(blocks).closed THEN Delimiter ELSE <<>>)
         \o StreamText(Tail(blocks))

\* The blocks that are closed by a blank line.
ClosedBlocks(blocks) == SelectSeq(blocks, LAMBDA b : b.closed)

\* Where a cut after character p of the text falls.
CutInMarker(text, p) ==
  \E i \in 1..5 :
    /\ p - i + 1 >= 1 /\ p - i + 6 <= Len(text)
    /\ SubSeq(text, p - i + 1, p - i + 6) = Marker
CutInDelimiter(text, p) ==
  p >= 1 /\ p < Len(text) /\ text[p] = NL /\ text[p + 1] = NL
CutInPayload(text, p) ==
  /\ p >= 1 /\ p < Len(text)
  /\ text[p] \in {"{"} \cup EventNames
  /\ text[p + 1] \in {"}"} \cup EventNames

\* readSSEStream before its first line has run, on a response whose body
\* carries the stream (hasBody) or has no body at all.
NewReader(blocks, hasBody) ==
  [pc |-> "start", blocks |-> blocks, text |-> StreamText(blocks),
   hasBody |-> hasBody, pos |-> 0, buffer |-> <<>>, handled |-> <<>>,
   locked |-> FALSE, exit |-> "",
   cuts |-> [marker |-> FALSE, payload |-> FALSE, delimiter |-> FALSE]]

\* The session core at rest while a stream is read.
SessionAtRest ==
  /\ now = 0
  /\ storage = EmptyStorage
  /\ refreshPromise = 0
  /\ posts = {}
  /\ nRefresh = 0
  /\ calls = [c \in CallIds |-> IdleCall]
  /\ mount = [pc |-> "done", wait |-> 0]
  /\ proactive = [due |-> -1, wait |-> 0]
  /\ login = [pending |-> FALSE, count |-> 0]
  /\ logout = [pending |-> FALSE]

\* response.body?.getReader(), lines 1078-1083
GetReader ==
  /\ reader.pc = "start"
  /\ reader' = IF reader.hasBody
                 THEN [reader EXCEPT !.pc = "reading", !.locked = TRUE]
                 ELSE [reader EXCEPT !.pc = "exited", !.exit = "noreader"]
  /\ UNCHANGED <<statusSteps, thinkingMessageIdRef, event>>
  /\ UNCHANGED chatVars
  /\ UNCHANGED sessionVars

\* reader.read() gives the next k characters of the stream, lines 1089-1133
ReadChunk(k) ==
  /\ reader.pc = "reading"
  /\ reader.pos + k <= Len(reader.text)
  /\ LET value == SubSeq(reader.text, reader.pos + 1, reader.pos + k)
         r == ProcessChunk(reader.buffer, value)
         p == reader.pos + k
     IN reader' = [reader EXCEPT
                     !.pos = p,
                     !.buffer = r.buffer,
                     !.handled = @ \o r.handled,
                     !.cuts = [marker |-> @.marker \/ CutInMarker(reader.text, p),
                               payload |-> @.payload \/ CutInPayload(reader.text, p),
                               delimiter |-> @.delimiter
                                               \/ CutInDelimiter(reader.text, p)]]
  /\ UNCHANGED <<statusSteps, thinkingMessageIdRef, event>>
  /\ UNCHANGED chatVars
  /\ UNCHANGED sessionVars

\* The exit of the try block on the path given, and the finally block.
Exit(path) ==
  [reader EXCEPT !.pc = "exited", !.exit = path, !.locked = Finally(path)]

\* reader.read() reports done: break, lines 1091-1093
ReadDone ==
  /\ reader.pc = "reading"
  /\ reader.pos = Len(reader.text)
  /\ reader' = [Exit("done") EXCEPT !.handled = @ \o AtDone(reader.buffer)]
  /\ UNCHANGED <<statusSteps, thinkingMessageIdRef, event>>
  /\ UNCHANGED chatVars
  /\ UNCHANGED sessionVars

\* reader.read() rejects, or the loop throws: the catch of lines 1135-1147
ReadThrows ==
  /\ reader.pc = "reading"
  /\ reader' = Exit("error")
  /\ UNCHANGED <<statusSteps, thinkingMessageIdRef, event>>
  /\ UNCHANGED chatVars
  /\ UNCHANGED sessionVars

\* The request is aborted: reader.read() rejects with an AbortError
ReadAborted ==
  /\ reader.pc = "reading"
  /\ reader' = Exit("abort")
  /\ UNCHANGED <<statusSteps, thinkingMessageIdRef, event>>
  /\ UNCHANGED chatVars
  /\ UNCHANGED sessionVars

ReaderInit ==
  /\ SessionAtRest
  /\ event = NoEvent
  /\ statusSteps = <<>>
  /\ thinkingMessageIdRef = 0
  /\ isAuthenticated = FALSE
  /\ ChatAtRest
  /\ reader \in {NewReader(blocks, hasBody) :
                   blocks \in Streams, hasBody \in BOOLEAN}

ReaderNext ==
  \/ GetReader
  \/ \E k \in 1..(Len(reader.text) - reader.pos) : ReadChunk(k)
  \/ ReadDone
  \/ ReadThrows
  \/ ReadAborted

ReaderSpec == ReaderInit /\ [][ReaderNext]_vars

\* ================================================ THE STATUS ACCUMULATOR ==
\* handleSSEEvent, case 'status', lines 900-962, with what resets the list:
\* sendMessage (line 1203) and the timer of a 'complete' event (line 969).
\* A step is its message and model name; its timestamp plays no part.
StatusMessages ==
  {"Classifying", "Finding", "thinking", "thinking longer", "trying stronger model"}
\* event.model_name as the backend sends it: absent, empty, or a name
ModelNames == {"undefined", "", "m1"}
Falsy(v) == v \in {"undefined", "null", ""}
\* event.model_name || null, line 903
ModelNameOf(raw) == IF Falsy(raw) THEN "null" ELSE raw

\* The test of lines 929-932
Exists_LastOnly(prev, statusMessage, modelName) ==
  /\ prev # <<>>
  /\ prev[Len(prev)].message = statusMessage
  /\ prev[Len(prev)].modelName = modelName
Exists(prev, statusMessage, modelName) ==
  \E i \in DOMAIN prev :
    /\ prev[i].message = statusMessage
    /\ \/ prev[i].modelName = modelName
       \/ Falsy(prev[i].modelName) /\ Falsy(modelName)

\* The updater of setStatusSteps, lines 921-960
AddStep(prev, statusMessage, modelName) ==
  IF ~Exists(prev, statusMessage, modelName)
    THEN Append(prev, [message |-> statusMessage, modelName |-> modelName])
    ELSE prev

ReachesUpdater_OnlyThinking(ref, statusMessage) ==
  /\ ref # 0
  /\ statusMessage # "thinking"
\* Whether a status event gets as far as the updater, lines 906-918
ReachesUpdater(ref, statusMessage) ==
  /\ ref # 0
  /\ statusMessage \notin {"thinking", "thinking longer"}


\* ==================================================== THE CHAT REQUEST =====
\* sendMessage (lines 1159-1406) with what it starts: the gateway call of
\* line 1259, readSSEStream (1077-1157) on the stream that comes back,
\* handleSSEEvent (897-1001) on each frame, processCompleteResponse
\* (1004-1074), the timers of lines 968 and 1214, and cancelRequest
\* (864-894).  The frames of a stream are taken as the reader hands them
\* over, one per read.  The two requests are the gateway's callers "a" and
\* "b"; "b" is the one sent later.
RequestId(c) == IF c = "a" THEN 1 ELSE 2
RequestOf(id) == CHOOSE c \in CallIds : RequestId(c) = id
\* Date.now() of line 1180 and Date.now() + 1 of line 1191
UserMessageId(c) == 10 * RequestId(c)
ThinkingMessageId(c) == 10 * RequestId(c) + 1
\* Date.now() + 1 of a message appended later (lines 882, 988, 1141, 1396)
LaterId == 99

CancelNotice == "Request cancelled by user."
ErrorText == "Error: boom"
SorryText == "Sorry, there was an error processing your message."

\* lines 1179-1183, 1193-1199
UserMessage(c) ==
  [id |-> UserMessageId(c), role |-> "user", content |-> "query",
   isThinking |-> FALSE, thinkingStatus |-> ""]
ThinkingMessage(c) ==
  [id |-> ThinkingMessageId(c), role |-> "assistant", content |-> "",
   isThinking |-> TRUE, thinkingStatus |-> "thinking"]
AssistantMessage(content) ==
  [id |-> LaterId, role |-> "assistant", content |-> content,
   isThinking |-> FALSE, thinkingStatus |-> ""]
\* What loadSession puts in place of the list, lines 813-857: the messages
\* as the backend stores them.
ServerMessages ==
  <<[id |-> 7, role |-> "assistant", content |-> "answer",
     isThinking |-> FALSE, thinkingStatus |-> ""]>>

\* lines 1205-1210, and the banner of lines 947-954
Initializing ==
  [type |-> "info", messages |-> <<"Initializing...">>, steps |-> <<>>]
\* statusMessage === 'trying stronger model' || includes('stronger') ||
\* includes('Trying stronger'), line 943, on the messages of the model
Stronger(statusMessage) == statusMessage \in {"trying stronger model"}
bannerType_AlwaysInfo(statusMessage) == "info"
bannerType(statusMessage) ==
  IF Stronger(statusMessage) THEN "escalation" ELSE "info"
\* [...new Set(allModels)], lines 939 and 950: the model names of the steps
\* that have one, each once, in the order of their first step
RECURSIVE DistinctModels(_)
DistinctModels(steps) ==
  IF steps = <<>> THEN <<>>
  ELSE LET before == DistinctModels(SubSeq(steps, 1, Len(steps) - 1))
           name == steps[Len(steps)].modelName
       IN IF Falsy(name) \/ \E i \in DOMAIN before : before[i] = name
            THEN before
            ELSE Append(before, name)
StepsBanner(updatedSteps, statusMessage) ==
  [type |-> bannerType(statusMessage),
   messages |-> [i \in DOMAIN updatedSteps |-> updatedSteps[i].message],
   models |-> DistinctModels(updatedSteps),
   steps |-> updatedSteps]

\* The state a handler of the chat works on, and its assignment.
UI ==
  [messages |-> messages, isLoading |-> isLoading,
   isAuthenticated |-> isAuthenticated,
   showSessionExpired |-> showSessionExpired, statusBanner |-> statusBanner,
   statusTimerRef |-> statusTimerRef, abortControllerRef |-> abortControllerRef,
   statusSteps |-> statusSteps, thinkingMessageIdRef |-> thinkingMessageIdRef,
   chat |-> chat]

Becomes(u) ==
  /\ messages' = u.messages
  /\ isLoading' = u.isLoading
  /\ isAuthenticated' = u.isAuthenticated
  /\ showSessionExpired' = u.showSessionExpired
  /\ statusBanner' = u.statusBanner
  /\ statusTimerRef' = u.statusTimerRef
  /\ abortControllerRef' = u.abortControllerRef
  /\ statusSteps' = u.statusSteps
  /\ thinkingMessageIdRef' = u.thinkingMessageIdRef
  /\ chat' = u.chat

\* prev.map(msg => msg.id === id ? { ...msg, ...patch } : msg), lines 872-876,
\* 908-912, 978-982, 1216-1220
MapMessage(prev, id, patch) ==
  [i \in DOMAIN prev |->
     IF prev[i].id = id
       THEN [f \in DOMAIN prev[i] |->
               IF f \in DOMAIN patch THEN patch[f] ELSE prev[i][f]]
       ELSE prev[i]]

\* The value thinkingMessageIdRef.current has when React runs an updater
\* that reads it.  React queues an updater and runs it at the next render,
\* after the task that queued it; it runs it at the call only when the
\* component has no update pending (eager) and none was queued before it in
\* the same task.
UpdaterRef(atCall, atRender, eager) == IF eager THEN atCall ELSE atRender

\* if (statusTimerRef.current) clearTimeout(statusTimerRef.current), lines
\* 890-892, 996-998, 1029-1031, 1071-1073, 1153-1155, 1213
clearStatusTimer(u) ==
  IF u.statusTimerRef # 0
    THEN [u EXCEPT !.chat[RequestOf(u.statusTimerRef)].longer = FALSE]
    ELSE u

\* A terminal outcome is applied to request c (history).
Settled(u, c, outcome) ==
  [u EXCEPT !.chat[c].outcomes = Append(@, outcome)]

\* sendMessage, lines 1179-1223
sendMessageStart(u, c) ==
  LET u1 == clearStatusTimer(u)
  IN [u1 EXCEPT !.messages = u.messages \o <<UserMessage(c), ThinkingMessage(c)>>,
                !.isLoading = TRUE,
                !.thinkingMessageIdRef = ThinkingMessageId(c),
                !.statusSteps = <<>>,
                !.statusBanner = Initializing,
                !.statusTimerRef = RequestId(c),
                !.abortControllerRef = RequestId(c),
                !.chat = (c :> [IdleChat EXCEPT !.longer = TRUE,
                                                !.pc = "fetch"]) @@ @]

sendMessageFinally_KeepsLoading(u, c) ==
  [u EXCEPT !.abortControllerRef = 0, !.chat[c].pc = "returned"]
\* The finally block of sendMessage, lines 1402-1405
sendMessageFinally(u, c) ==
  [u EXCEPT !.isLoading = FALSE, !.abortControllerRef = 0,
            !.chat[c].pc = "returned"]

\* if (!token), lines 1251-1257 (the store is cleared by the action)
sendMessageNoToken(u, c) ==
  sendMessageFinally([u EXCEPT !.showSessionExpired = TRUE,
                               !.isLoading = FALSE,
                               !.abortControllerRef = 0], c)

\* if (res.status === 401), lines 1268-1276 (the store is cleared by
\* CallerAfter)
Unauthorized_NoPrompt(u) ==
  [u EXCEPT !.isLoading = FALSE, !.abortControllerRef = 0]
Unauthorized(u) ==
  [u EXCEPT !.showSessionExpired = TRUE, !.isAuthenticated = FALSE,
            !.isLoading = FALSE, !.abortControllerRef = 0]

\* The catch block of sendMessage, lines 1390-1401
sendMessageCatch(u, c, err) ==
  IF err # AbortError
    THEN Settled([u EXCEPT !.messages = Append(@, AssistantMessage(SorryText))],
                 c, "errored")
    ELSE u

\* A response that is not ok and not a 401, line 1279
LimitStatus == "429"

\* sendMessage from the await of line 1259 on, with what authenticatedFetch
\* returned or threw: lines 1268-1311 up to the first reader.read() of
\* readSSEStream (1078-1089), or the catch and finally blocks.
afterFetch(u, c, resp) ==
  IF resp.from = "threw"
    THEN sendMessageFinally(sendMessageCatch(u, c, resp), c)
  ELSE IF resp.status = "401"
    THEN sendMessageFinally(Unauthorized(u), c)
  ELSE IF resp.status = LimitStatus
    THEN [u EXCEPT !.chat[c].pc = "body"]
  ELSE [u EXCEPT !.chat[c].pc = "reading", !.chat[c].locked = TRUE]

\* What the body of a response that is not ok holds, lines 1280-1300: a
\* limit error, a request for confirmation, or neither.
Bodies == {"limit", "confirmation", "other"}

\* sendMessage after res.json() of line 1280 settled, lines 1281-1300: the
\* two early returns, or throw new Error('Request failed'); then the catch
\* and finally blocks.
afterBody(u, c, body) ==
  IF body \in {"limit", "confirmation"}
    THEN sendMessageFinally([u EXCEPT !.isLoading = FALSE,
                                      !.abortControllerRef = 0], c)
    ELSE sendMessageFinally(sendMessageCatch(u, c, Threw), c)

\* The sendMessage calls whose authenticatedFetch returned in this turn go
\* on, in the order they were made.
AfterReturns(u, ret) ==
  LET ua == IF "a" \in DOMAIN ret THEN afterFetch(u, "a", ret["a"].resp) ELSE u
  IN IF "b" \in DOMAIN ret THEN afterFetch(ua, "b", ret["b"].resp) ELSE ua

\* The frames a stream carries: a status event (message Classifying, no
\* model name), a complete event, an error event.
FrameTypes == {"status", "complete", "error"}
FrameStatus == "Classifying"
MaxFrames == 2

\* event.result of a 'complete' frame, as far as lines 1013-1028 read it:
\* without status messages, with status messages none of which tells of a
\* stronger model, and with one that does.
PlainResult == [status_messages |-> <<>>, models_tried |-> <<>>]
Results ==
  {PlainResult,
   [status_messages |-> <<"Classifying">>, models_tried |-> <<"m1">>],
   [status_messages |-> <<"Classifying", "trying stronger model">>,
    models_tried |-> <<"m1", "m2">>]}

\* The banner processCompleteResponse sets, lines 1013-1028
ResultBanner(data) ==
  IF /\ data.status_messages # <<>>
     /\ \E i \in DOMAIN data.status_messages :
          Stronger(data.status_messages[i])
    THEN [type |-> "escalation",
          messages |-> SelectSeq(data.status_messages, Stronger),
          models |-> data.models_tried]
    ELSE Null

\* processCompleteResponse up to its first await, lines 1004-1062: the
\* call then awaits fetchUsageSummary.
processCompleteResponse(u, c, data) ==
  LET u1 == clearStatusTimer([u EXCEPT !.statusBanner = ResultBanner(data)])
  IN [u1 EXCEPT !.chat[c].usage = @ + 1]

\* handleSSEEvent, case 'complete', lines 964-972
handleComplete(u, c, data) ==
  Settled([processCompleteResponse(u, c, data)
             EXCEPT !.chat[c].clears = @ + 1], c, "complete")

\* handleSSEEvent, case 'status', lines 900-962, on an event with the
\* message and the model_name given.
handleStatus(u, statusMessage, raw, eager) ==
  LET ref == u.thinkingMessageIdRef
      modelName == ModelNameOf(raw)
  IN IF ref # 0
       THEN LET u1 == [u EXCEPT !.messages =
                         MapMessage(@, UpdaterRef(ref, ref, eager),
                           [thinkingStatus |-> statusMessage])]
                added == ~Exists(u.statusSteps, statusMessage, modelName)
                updatedSteps == AddStep(u.statusSteps, statusMessage, modelName)
            IN IF ReachesUpdater(ref, statusMessage)
                 THEN [u1 EXCEPT !.statusSteps = updatedSteps,
                                 !.statusBanner =
                                   IF added
                                     THEN StepsBanner(updatedSteps, statusMessage)
                                     ELSE @]
                 ELSE u1
       ELSE u

\* handleSSEEvent, lines 897-1001, on a frame of the stream of request c.
\* eager says whether React runs the first updater of the task at the call.
handleSSEEvent(u, c, type, eager) ==
  LET ref == u.thinkingMessageIdRef
  IN CASE type = "status" -> handleStatus(u, FrameStatus, "undefined", eager)
       [] type = "complete" -> handleComplete(u, c, PlainResult)
       [] type = "error" ->
            LET u1 == IF ref # 0
                        THEN [u EXCEPT !.messages =
                                MapMessage(@, UpdaterRef(ref, 0, eager),
                                  [isThinking |-> FALSE, content |-> ErrorText]),
                                       !.thinkingMessageIdRef = 0]
                        ELSE [u EXCEPT !.messages =
                                Append(@, AssistantMessage(ErrorText))]
            IN Settled(clearStatusTimer([u1 EXCEPT !.isLoading = FALSE,
                                                   !.statusBanner = Null]),
                       c, "errored")

\* The catch block of readSSEStream, lines 1135-1146
readSSEStreamCatch(u, c, err) ==
  IF err # AbortError
    THEN Settled([u EXCEPT !.messages = Append(@, AssistantMessage(SorryText))],
                 c, "errored")
    ELSE u

\* The finally block of readSSEStream, lines 1147-1156, on the exit path
\* given; sendMessage then returns (line 1311) through its own finally.
readSSEStreamFinally(u, c, path) ==
  LET u1 == clearStatusTimer([u EXCEPT !.chat[c].locked = Finally(path),
                                       !.chat[c].exit = path,
                                       !.isLoading = FALSE,
                                       !.thinkingMessageIdRef = 0])
  IN sendMessageFinally(u1, c)

\* cancelRequest, lines 864-894, when abortControllerRef.current is set; c
\* is the request whose controller it holds.  setIsLoading(false) is queued
\* before the updater of lines 872-876, so React runs that updater at the
\* next render, when line 877 has run.
cancelRequest(u, c) ==
  LET ref == u.thinkingMessageIdRef
      u1 == [u EXCEPT !.chat[c].aborted = TRUE,
                      !.abortControllerRef = 0, !.isLoading = FALSE]
      u2 == IF ref # 0
              THEN [u1 EXCEPT !.messages =
                      MapMessage(@, UpdaterRef(ref, 0, FALSE),
                        [isThinking |-> FALSE, content |-> CancelNotice]),
                              !.thinkingMessageIdRef = 0]
              ELSE [u1 EXCEPT !.messages = Append(@, AssistantMessage(CancelNotice))]
  IN Settled(clearStatusTimer([u2 EXCEPT !.statusBanner = Null]), c, "cancelled")

\* ------------------------------------------- the status events of a request
\* One request and the status events of its stream, with what resets the
\* list and the banner or drops the placeholder reference.
\* How many status events are followed since the list was last reset.
MaxStatus == 3
NoStatus == [type |-> "none", received |-> <<>>]

\* sendMessage, lines 1179-1210, for the first message of a conversation
SendMessage ==
  /\ messages = <<>>
  /\ Becomes(sendMessageStart(UI, "a"))
  /\ event' = [type |-> "send", received |-> <<>>]
  /\ UNCHANGED reader
  /\ UNCHANGED sessionVars

\* A status event is handled; received lists the events that reached the
\* updater since the list was last reset.
StatusEvent(statusMessage, raw) ==
  /\ Len(event.received) < MaxStatus
  /\ LET modelName == ModelNameOf(raw)
         reaches == ReachesUpdater(thinkingMessageIdRef, statusMessage)
         step == [message |-> statusMessage, modelName |-> modelName]
         u == handleStatus(UI, statusMessage, raw, TRUE)
     IN /\ statusSteps' = u.statusSteps
        /\ statusBanner' = u.statusBanner
        /\ messages' = u.messages
        /\ event' = [type |-> "status", step |-> step, reached |-> reaches,
                     before |-> statusSteps,
                     received |-> IF reaches THEN Append(event.received, step)
                                  ELSE event.received]
  /\ UNCHANGED <<thinkingMessageIdRef, reader, isLoading, isAuthenticated,
                 showSessionExpired, statusTimerRef, abortControllerRef, chat>>
  /\ UNCHANGED sessionVars

\* The 'complete' event of the request is handled, lines 964-972, with
\* processCompleteResponse up to its first await.
CompleteEvent(data) ==
  /\ Request("a").pc # "idle"
  /\ Request("a").outcomes = <<>>
  /\ Becomes(handleComplete(UI, "a", data))
  /\ event' = [type |-> "complete", data |-> data, before |-> statusSteps,
               banner |-> statusBanner, received |-> event.received]
  /\ UNCHANGED reader
  /\ UNCHANGED sessionVars

\* The timer of the 'complete' event fires, lines 968-971
CompleteTimer ==
  /\ Request("a").clears > 0
  /\ Becomes([UI EXCEPT !.statusSteps = <<>>, !.statusBanner = Null,
                        !.chat["a"].clears = @ - 1])
  /\ event' = [type |-> "reset", received |-> <<>>]
  /\ UNCHANGED reader
  /\ UNCHANGED sessionVars

\* An 'error' event (line 983), the end of processCompleteResponse (line
\* 1065) or the finally of readSSEStream (line 1152)
ThinkingCleared ==
  /\ thinkingMessageIdRef # 0
  /\ thinkingMessageIdRef' = 0
  /\ event' = [type |-> "cleared", received |-> event.received]
  /\ UNCHANGED <<statusSteps, reader>>
  /\ UNCHANGED chatVars
  /\ UNCHANGED sessionVars

StepsInit ==
  /\ SessionAtRest
  /\ reader = NoReader
  /\ statusSteps = <<>>
  /\ thinkingMessageIdRef = 0
  /\ isAuthenticated = FALSE
  /\ ChatAtRest
  /\ event = NoStatus

StepsNext ==
  \/ SendMessage
  \/ \E statusMessage \in StatusMessages, raw \in ModelNames :
       StatusEvent(statusMessage, raw)
  \/ \E data \in Results : CompleteEvent(data)
  \/ CompleteTimer
  \/ ThinkingCleared

StepsSpec == StepsInit /\ [][StepsNext]_vars

\* What a task of the chat recorded: its kind, the request it belongs to.
ChatEvent(type, c, info) ==
  [type |-> type, c |-> c, info |-> info,
   rc |-> NoRC, ret |-> NoRet, sent |-> NoRet, got |-> Null]

\* sendMessage is called (the form is submitted, line 1159): lines 1159-1266
\* and, when authenticatedFetch returns without a network call, what follows.
Submit(c) ==
  /\ ~isLoading
  /\ Request(c).pc = "idle"
  /\ calls[c].pc = "idle"
  /\ c = "b" => Request("a").pc # "idle"
  /\ LET u0 == sendMessageStart(UI, c)
         a == getAccessToken(storage, now)
     IN IF a.token = NoToken
          THEN /\ storage' = clearTokens(a.st)
               /\ Becomes(sendMessageNoToken(u0, c))
               /\ event' = ChatEvent("notoken", c, Null)
               /\ UNCHANGED <<now, refreshPromise, posts, nRefresh, calls,
                              mount, proactive, login, logout>>
          ELSE /\ StartCallTask(c, [signal |-> "own"])
               /\ Becomes(AfterReturns(u0, event'.ret))
  /\ UNCHANGED reader

\* The chat POST is answered (or fails): authenticatedFetch goes on, and
\* sendMessage after it if it returns.
FetchResponse(c, status) ==
  /\ Request(c).pc = "fetch"
  /\ ResponseTask(c, status)
  /\ Becomes(AfterReturns(UI, event'.ret))
  /\ UNCHANGED reader

\* The refresh POST is answered: the gateway calls that awaited it go on,
\* and sendMessage after those that return.
RefreshSettles(x, res) ==
  /\ SettleTask(x, res)
  /\ Becomes(AfterReturns(UI, event'.ret))
  /\ UNCHANGED reader

\* The stop button is clicked (shown while isLoading, lines 5097-5098):
\* cancelRequest, then what the abort makes reject: the read of line 1089,
\* the fetch in flight that was given the signal, or the res.json() of
\* line 1280, whose catch yields an empty object.
Cancel ==
  /\ isLoading
  /\ abortControllerRef # 0
  /\ LET c == RequestOf(abortControllerRef)
         u1 == cancelRequest(UI, c)
         aborted == u1.chat[c].aborted
         reading == Request(c).pc = "reading"
         inFlight == /\ Request(c).pc = "fetch"
                     /\ calls[c].pc \in {"sent1", "sent2"}
                     /\ calls[c].carried
         u2 == IF aborted /\ reading
                 THEN readSSEStreamFinally(readSSEStreamCatch(u1, c, AbortError),
                                           c, "abort")
               ELSE IF aborted /\ inFlight
                 THEN afterFetch(u1, c, AbortError)
               ELSE IF aborted /\ Request(c).pc = "body"
                 THEN afterBody(u1, c, "other")
               ELSE u1
     IN /\ Becomes(u2)
        /\ calls' = IF aborted /\ inFlight
                      THEN [calls EXCEPT ![c] = IdleCall]
                      ELSE calls
        /\ event' = ChatEvent("cancel", c,
                              [reading |-> reading,
                               ref |-> thinkingMessageIdRef])
  /\ UNCHANGED <<now, storage, refreshPromise, posts, nRefresh, mount,
                 proactive, login, logout, reader>>

\* res.json() of line 1280 gives the body of a response that is not ok
BodyRead(c, body) ==
  /\ Request(c).pc = "body"
  /\ Becomes(afterBody(UI, c, body))
  /\ event' = ChatEvent("body", c, body)
  /\ UNCHANGED reader
  /\ UNCHANGED sessionVars

\* reader.read() gives a chunk with one frame, lines 1089-1133
Frame(c, type, eager) ==
  /\ Request(c).pc = "reading"
  /\ Request(c).frames < MaxFrames
  /\ Becomes([handleSSEEvent(UI, c, type, eager) EXCEPT !.chat[c].frames = @ + 1])
  /\ event' = ChatEvent("frame", c, type)
  /\ UNCHANGED reader
  /\ UNCHANGED sessionVars

\* reader.read() reports done, lines 1091-1093 and 1147-1156
StreamDone(c) ==
  /\ Request(c).pc = "reading"
  /\ Becomes(readSSEStreamFinally(UI, c, "done"))
  /\ event' = ChatEvent("done", c, Null)
  /\ UNCHANGED reader
  /\ UNCHANGED sessionVars

\* reader.read() rejects with a network error, lines 1135-1156
StreamFails(c) ==
  /\ Request(c).pc = "reading"
  /\ Becomes(readSSEStreamFinally(readSSEStreamCatch(UI, c, Threw), c, "error"))
  /\ event' = ChatEvent("fails", c, Null)
  /\ UNCHANGED reader
  /\ UNCHANGED sessionVars

\* fetchUsageSummary returns to a processCompleteResponse of request c,
\* lines 1062-1068: the reference is dropped and loadSession called.
UsageFetched(c) ==
  /\ Request(c).usage > 0
  /\ Becomes([UI EXCEPT !.thinkingMessageIdRef = 0,
                        !.chat[c].usage = @ - 1,
                        !.chat[c].load = @ + 1])
  /\ event' = ChatEvent("usage", c, Null)
  /\ UNCHANGED reader
  /\ UNCHANGED sessionVars

\* loadSession returns to a processCompleteResponse of request c: lines
\* 840-857 (no escalation among the stored status messages), 1070-1073
SessionLoaded(c) ==
  /\ Request(c).load > 0
  /\ Becomes(clearStatusTimer([UI EXCEPT !.statusBanner = Null,
                                         !.messages = ServerMessages,
                                         !.isLoading = FALSE,
                                         !.chat[c].load = @ - 1]))
  /\ event' = ChatEvent("loaded", c, Null)
  /\ UNCHANGED reader
  /\ UNCHANGED sessionVars

\* The timer a 'complete' frame of request c set fires, lines 968-971
ClearTimerFires(c) ==
  /\ Request(c).clears > 0
  /\ Becomes([UI EXCEPT !.statusSteps = <<>>, !.statusBanner = Null,
                        !.chat[c].clears = @ - 1])
  /\ event' = ChatEvent("clear", c, Null)
  /\ UNCHANGED reader
  /\ UNCHANGED sessionVars

\* The 20-second timer of request c fires, lines 1214-1221
LongerTimerFires(c) ==
  /\ Request(c).longer
  /\ Becomes([UI EXCEPT !.messages =
                MapMessage(@, ThinkingMessageId(c),
                  [thinkingStatus |-> "thinking longer"]),
                        !.chat[c].longer = FALSE])
  /\ event' = ChatEvent("longer", c, Null)
  /\ UNCHANGED reader
  /\ UNCHANGED sessionVars

\* What localStorage holds when a message is sent: nothing, or a bundle
\* with or without a refresh token whose access token is fresh or within
\* the margin.
SendStorages ==
  { EmptyStorage }
    \cup { [auth_tokens |-> b, access_token |-> b.access_token,
            session_id |-> b.session_id] :
             b \in { k \in BootBundles : /\ k.expires_at \in {1, 6}
                                         /\ k.refresh_expires_at = 20160 } }

\* A bundle whose access token is fresh.
FreshStorage ==
  LET b == [access_token |-> 1, refresh_token |-> 1, session_id |-> SESSION,
            expires_at |-> 6, refresh_expires_at |-> 20160]
  IN [auth_tokens |-> b, access_token |-> b.access_token,
      session_id |-> b.session_id]

\* The page of a user who is logged in: the mount effect has run, the
\* profile was fetched (line 638).
LoggedIn ==
  /\ now = 0
  /\ refreshPromise = 0
  /\ posts = {}
  /\ nRefresh = 0
  /\ calls = [c \in CallIds |-> IdleCall]
  /\ mount = [pc |-> "done", wait |-> 0]
  /\ proactive = [due |-> -1, wait |-> 0]
  /\ login = [pending |-> FALSE, count |-> 0]
  /\ logout = [pending |-> FALSE]
  /\ event = NoEvent
  /\ reader = NoReader
  /\ statusSteps = <<>>
  /\ thinkingMessageIdRef = 0
  /\ isAuthenticated = TRUE
  /\ ChatAtRest

\* ------------------------------------------------- the stream session
\* The chat requests of a user whose access token is fresh, with the frames
\* and the end of their streams, the continuations and the timers; the
\* chat POST is answered 200 or fails.
StreamStatuses == {"200", "neterr"}

ChatInit ==
  /\ LoggedIn
  /\ storage = FreshStorage

ChatNext ==
  \/ \E c \in CallIds : Submit(c)
  \/ \E c \in CallIds, status \in StreamStatuses : FetchResponse(c, status)
  \/ Cancel
  \/ \E c \in CallIds, type \in FrameTypes, eager \in BOOLEAN : Frame(c, type, eager)
  \/ \E c \in CallIds : StreamDone(c)
  \/ \E c \in CallIds : StreamFails(c)
  \/ \E c \in CallIds : UsageFetched(c)
  \/ \E c \in CallIds : SessionLoaded(c)
  \/ \E c \in CallIds : ClearTimerFires(c)
  \/ \E c \in CallIds : LongerTimerFires(c)

ChatSpec == ChatInit /\ [][ChatNext]_vars

\* ------------------------------------------------- the authorised send
\* The chat requests through the gateway, from every SendStorages content
\* and with every answer to the chat POST and to the refresh POST; their
\* streams are followed to the end only.
SendInit ==
  /\ LoggedIn
  /\ storage \in SendStorages

SendStatuses == TargetStatuses \cup {LimitStatus}

SendNext ==
  \/ \E c \in CallIds : Submit(c)
  \/ \E c \in CallIds, status \in SendStatuses : FetchResponse(c, status)
  \/ \E c \in CallIds, body \in Bodies : BodyRead(c, body)
  \/ \E x \in posts : \E res \in RefreshResponses(x) : RefreshSettles(x, res)
  \/ Cancel
  \/ \E c \in CallIds : StreamDone(c)
  \/ \E c \in CallIds : StreamFails(c)
  \/ \E c \in CallIds : LongerTimerFires(c)

SendSpec == SendInit /\ [][SendNext]_vars

\* Every network call settles: the chat POST is answered or fails, the body
\* of an answer that is not ok is read, a stream ends, a refresh POST is
\* answered or fails.
NetworkSettles ==
  /\ \A c \in CallIds :
       /\ WF_vars(\E status \in SendStatuses : FetchResponse(c, status))
       /\ WF_vars(\E body \in Bodies : BodyRead(c, body))
       /\ WF_vars(StreamDone(c) \/ StreamFails(c))
  /\ WF_vars(\E x \in posts : \E res \in RefreshResponses(x) :
               RefreshSettles(x, res))

SendLiveSpec == SendSpec /\ NetworkSettles

\* ============================================================ CLAIMS ======
\* Everyone who awaits a refresh: the calls in "pre" or "post", the mount
\* effect, the timer callback; and the exchange each awaits.
Awaiting ==
  {c \in CallIds : calls[c].pc \in {"pre", "post"}}
    \cup (IF mount.pc = "waiting" THEN {"mount"} ELSE {})
    \cup (IF proactive.wait # 0 THEN {"timer"} ELSE {})

AwaitedBy(w) ==
  IF w = "mount" THEN mount.wait
  ELSE IF w = "timer" THEN proactive.wait
  ELSE calls[w].wait

IsSettle == event.type = "settle"
Returns == DOMAIN event.ret
Sends == DOMAIN event.sent

\* C1 (single-flight): the callers of refreshAccessToken() that have not
\* been answered yet all await one and the same exchange, which is the one
\* refresh POST outstanding; and when it settles every one of them resumes
\* with the one result: all go on with the token of the same new bundle, or
\* all get null.
C1_SingleFlight ==
  /\ \A w1, w2 \in Awaiting : AwaitedBy(w1) = AwaitedBy(w2)
  /\ \A w \in Awaiting : posts = {AwaitedBy(w)}
  /\ IsSettle =>
       /\ \A w \in Awaiting : AwaitedBy(w) # event.x
       /\ event.value = Null => Sends = {}
       /\ event.value # Null =>
            /\ Returns = {}
            /\ \A c \in Sends : /\ event.sent[c].token = event.value.access_token
                                /\ calls[c].tok = event.value.access_token

C1_Witness ==
  /\ IsSettle
  /\ Cardinality(event.ws) >= 2
  /\ event.value # Null
  /\ Cardinality(Sends) >= 2

\* C2: at most one refresh POST is sent and not yet settled.
C2_AtMostOneOutstanding == Cardinality(posts) <= 1

C2_Witness ==
  /\ nRefresh = 2
  /\ Cardinality(posts) = 1
  /\ login.pending
  /\ logout.pending
  /\ Cardinality(Awaiting) >= 2

\* C3 (retry once, refresh succeeded): a call whose first fetch got a 401
\* and whose refresh gave a bundle has made exactly two fetches of the
\* target, the second with the token of that bundle; what it returns is the
\* response of the second fetch, 401 included; no call makes a third fetch.
C3_RetryOnce ==
  /\ \A c \in CallIds :
       /\ calls[c].issues <= 2
       /\ calls[c].pc = "sent2" => calls[c].issues = 2
  /\ \A c \in Returns : event.ret[c].issues <= 2
  /\ IsSettle =>
       \A c \in Sends :
         event.sent[c].n = 2 =>
           /\ calls[c].pc = "sent2"
           /\ calls[c].tok = event.value.access_token
  /\ \A c \in Returns :
       event.ret[c].issues = 2 /\ event.type = "response" /\ event.got.status # "neterr" =>
         /\ event.ret[c].resp = event.got
         /\ event.got.from = "second"
         /\ calls[c].pc = "idle"

C3_Witness ==
  /\ event.type = "response"
  /\ \E c \in Returns :
       /\ event.ret[c].issues = 2
       /\ event.ret[c].resp = [from |-> "second", status |-> "401"]

\* C4 (retry once, refresh failed): a call whose first fetch got a 401 and
\* whose refresh gave null returns that first response and has made one
\* fetch of the target only.
C4_FailedRefreshReturnsOriginal ==
  /\ \A c \in Returns :
       event.ret[c].phase = "post" =>
         /\ event.ret[c].resp = [from |-> "first", status |-> "401"]
         /\ event.ret[c].issues = 1
         /\ calls[c].pc = "idle"
  /\ IsSettle /\ event.value = Null =>
       \A c \in event.ws \cap CallIds : c \in Returns

C4_Witness ==
  /\ IsSettle
  /\ event.kind \in RefreshFailures
  /\ \E c \in Returns : event.ret[c].phase = "post"

\* C5: two calls in progress at once whose first fetches carried the same
\* access token and both got a 401 do not start two refresh exchanges.
C5_OneRefreshForOverlappingCalls ==
  \A c1, c2 \in CallIds :
    (/\ c1 # c2
     /\ calls[c1].pc # "idle" /\ calls[c2].pc # "idle"
     /\ calls[c1].tok1 = calls[c2].tok1
     /\ calls[c1].x401 # 0 /\ calls[c2].x401 # 0)
      => calls[c1].x401 = calls[c2].x401

\* C6 (pre-check): a call that starts when the stored record has no access
\* token, or one that expires in less than 5 minutes, calls the refresher
\* and makes no fetch before it is answered; if the answer is null the call
\* returns the local 401 and has made no fetch of the target.
C6_PreCheck ==
  /\ event.type = "call" /\ event.entry.need =>
       /\ event.rc.made
       /\ Sends = {}
  /\ \A c \in CallIds : calls[c].pc = "pre" => calls[c].issues = 0
  /\ \A c \in Returns :
       event.ret[c].phase = "pre" =>
         /\ event.ret[c].resp = Local401
         /\ event.ret[c].issues = 0
         /\ calls[c].pc = "idle"
  /\ IsSettle /\ event.value = Null => Sends = {}

C6_Witness ==
  /\ IsSettle
  /\ event.kind \in RefreshFailures
  /\ \E c \in Returns : event.ret[c].phase = "pre" /\ event.ret[c].resp = Local401

\* C7 (proactive continuity): every fetch the gateway makes carries a token
\* whose recorded expiry is still ahead when the gateway puts it in the
\* header; a call that starts one minute before the stored token expires
\* makes no fetch at entry, and makes its first fetch only when the refresh
\* has settled, with the token of the refreshed bundle.
C7_NoExpiredToken ==
  /\ \A c \in Sends : event.sent[c].unexpired
  /\ event.type = "call" /\ event.entry.near =>
       /\ Sends = {}
       /\ event.rc.made
  /\ \A c \in Sends :
       event.sent[c].near =>
         /\ IsSettle
         /\ event.state = "fulfilled"
         /\ event.sent[c].token = event.value.access_token
         /\ calls[c].tok = event.value.access_token
         /\ event.x \notin posts

C7_Witness ==
  /\ IsSettle
  /\ \E c \in Sends : event.sent[c].near /\ event.sent[c].n = 1

\* C8 (refresh preconditions): a call of refreshAccessToken() made while no
\* refresh is live and the stored record is absent, has an empty refresh
\* token or a refresh expiry that has passed, returns null, leaves the
\* store empty and sends no refresh POST.
C8_RefreshPreconditions ==
  event.rc.made /\ ~event.rc.live /\ event.rc.unusable =>
    /\ event.rc.kind = "null"
    /\ event.rc.cleared
    /\ storage = EmptyStorage
    /\ posts = {}
    /\ refreshPromise = 0
    /\ Awaiting = {}

C8_Witness ==
  /\ event.type = "response"
  /\ event.rc.made /\ ~event.rc.live /\ event.rc.unusable
  /\ nRefresh >= 1

\* C9 (refresh failure clears the store): when a refresh exchange ends in a
\* 401, another non-OK status, a network error or a body that does not
\* parse, the store is empty afterwards and everyone who awaited the
\* exchange got null: no call goes on to a fetch, every awaiting call
\* returns a 401.
C9_FailureClearsStore ==
  IsSettle /\ event.kind \in RefreshFailures =>
    /\ storage = EmptyStorage
    /\ event.state = "fulfilled"
    /\ event.value = Null
    /\ Sends = {}
    /\ \A c \in event.ws \cap CallIds :
         c \in Returns /\ event.ret[c].resp.status = "401"
    /\ \A w \in Awaiting : AwaitedBy(w) # event.x

C9_Witness ==
  /\ IsSettle
  /\ event.kind = "badjson"
  /\ Cardinality(event.ws) >= 2

\* C10 (the refresher never rejects): however the refresh POST ends, the
\* promise settles fulfilled, with a bundle or null, and no call that
\* awaited it throws.
C10_NeverRejects ==
  IsSettle =>
    /\ event.state = "fulfilled"
    /\ event.kind \in RefreshFailures => event.value = Null
    /\ \A c \in Returns : event.ret[c].resp # Threw

C10_Witness ==
  /\ IsSettle
  /\ event.kind = "neterr"
  /\ event.ws # {}
  /\ event.state = "fulfilled"

\* C11 (refresh success): when the refresh POST comes back with a 200 and a
\* body that parses, the promise fulfils with a bundle that carries the
\* tokens of that body, and the record in the store right after the settle
\* is that very bundle (the legacy keys hold its token and session id).
C11_SuccessSavesReturned ==
  IsSettle /\ event.kind = "ok" =>
    /\ event.state = "fulfilled"
    /\ event.value # Null
    /\ event.value.access_token = RefreshIssued(event.x)
    /\ event.value.refresh_token = RefreshIssued(event.x)
    /\ storage.auth_tokens = event.value
    /\ storage.access_token = event.value.access_token
    /\ storage.session_id = event.value.session_id

C11_Witness ==
  /\ IsSettle /\ event.kind = "ok"
  /\ event.ws # {}
  /\ storage.auth_tokens # Null
  /\ storage.auth_tokens.access_token = RefreshIssued(event.x)

\* C12 (the marker is reset): refreshPromise is set exactly while a refresh
\* POST is outstanding, so it is empty right after every settle, success or
\* failure; and a call of refreshAccessToken() that finds a usable refresh
\* token stored and no POST outstanding starts a new exchange.
C12_MarkerReset ==
  /\ refreshPromise # 0 => posts = {refreshPromise}
  /\ refreshPromise = 0 => posts = {}
  /\ IsSettle => refreshPromise = 0 /\ event.x \notin posts
  /\ event.rc.made /\ ~event.rc.unusable /\ ~event.rc.live =>
       /\ event.rc.kind = "start"
       /\ posts = {nRefresh}
       /\ refreshPromise = nRefresh

C12_Witness ==
  /\ event.rc.made /\ ~event.rc.unusable
  /\ event.rc.kind = "start"
  /\ nRefresh = 2
  /\ posts = {2}

\* C13 (logout destroys the bundle): in the task in which handleLogout
\* completes the store is emptied, and the task that follows leaves it
\* empty unless it is the answer to a login (logout is pressed in a page
\* whose mount effect has finished).
C13_LogoutStaysEmpty ==
  [][event.type = "logout" /\ mount.pc = "done" =>
       /\ storage = EmptyStorage
       /\ (login' = login => storage' = EmptyStorage)]_vars

\* C14 (load rejects an expired refresh token): a getTokens() call that
\* finds a record whose refresh_expires_at is not in the future returns
\* null and leaves all three keys removed; whatever bundle getTokens()
\* returns has its refresh expiry still ahead.
C14_LoadRejectsExpired ==
  event.type = "load" =>
    /\ (/\ event.before.auth_tokens # Null
        /\ event.before.auth_tokens.refresh_expires_at <= event.at)
         => event.tokens = Null /\ storage = EmptyStorage
    /\ event.tokens # Null => event.at < event.tokens.refresh_expires_at

C14_Witness ==
  /\ event.type = "load"
  /\ event.before.auth_tokens # Null
  /\ event.before.auth_tokens.refresh_expires_at <= event.at
  /\ event.before.access_token # NoToken
  /\ storage = EmptyStorage

\* C15 (legacy migration is persisted once): a getTokens() call on a store
\* that holds only the legacy token and session id returns a bundle with
\* them, an empty refresh token, an access expiry 30 minutes ahead and a
\* refresh expiry 14 days ahead, and leaves that bundle stored in the
\* current format; a getTokens() call after it, at once or later, takes the
\* current-format branch, returns the same bundle and changes nothing.
C15_LegacyMigratedOnce ==
  /\ event.type = "load" /\ event.path = "legacy" =>
       /\ event.tokens = [access_token |-> event.before.access_token,
                          refresh_token |-> NoToken,
                          session_id |-> event.before.session_id,
                          expires_at |-> event.at + 30,
                          refresh_expires_at |-> event.at + 14 * 24 * 60]
       /\ storage.auth_tokens = event.tokens
       /\ LoadPath(storage) = "current"
       /\ \A t \in now..MaxTime :
            getTokens(storage, t) = [tokens |-> event.tokens, st |-> storage]
  /\ event.type = "load" /\ event.prev.path = "legacy" =>
       /\ event.path = "current"
       /\ event.tokens = event.prev.tokens
       /\ storage = event.before

C15_Witness ==
  /\ event.type = "load"
  /\ event.prev.path = "legacy"
  /\ event.path = "current"
  /\ event.tokens # Null
  /\ event.tokens.refresh_token = NoToken

\* C16 (frame reassembly): however the stream is cut into chunks, after
\* every read the events handed to handleSSEEvent and the buffer kept are
\* those of the same characters delivered as one chunk: same events, same
\* order (for every stream of the model, the valid ones included).
C16_FrameReassembly ==
  reader.pc \in {"reading", "exited"} /\ reader.exit # "noreader" =>
    LET whole == ProcessChunk(<<>>, SubSeq(reader.text, 1, reader.pos))
    IN /\ reader.handled = whole.handled
       /\ reader.buffer = whole.buffer

C16_Witness ==
  /\ reader.exit = "done"
  /\ reader.blocks = <<[kind |-> "A", closed |-> TRUE],
                       [kind |-> "B", closed |-> TRUE]>>
  /\ reader.cuts.marker /\ reader.cuts.payload /\ reader.cuts.delimiter
  /\ Len(reader.handled) = 2
  /\ reader.handled[1].name = "A" /\ reader.handled[2].name = "B"

\* C17 (malformed frames): an error event handed to handleSSEEvent for a
\* "data: " block whose payload JSON.parse refused stems from a raw text
\* that contains "Error" or "error".
C17_ErrorOnlyForErrorText ==
  \A i \in DOMAIN reader.handled :
    reader.handled[i].type = "error" /\ reader.handled[i].marked =>
      HasErrorWord(reader.handled[i].raw)

\* C18 (stream end with leftover): when the stream ends, the events handed
\* to handleSSEEvent are those of the blocks closed by a blank line; a last
\* block without it stays in the buffer and gives no event.
C18_LeftoverDiscarded ==
  reader.exit = "done" =>
    /\ reader.handled =
         ProcessChunk(<<>>, StreamText(ClosedBlocks(reader.blocks))).handled
    /\ reader.buffer =
         SubSeq(reader.text,
                Len(StreamText(ClosedBlocks(reader.blocks))) + 1,
                Len(reader.text))

C18_Witness ==
  /\ reader.exit = "done"
  /\ reader.blocks = <<[kind |-> "A", closed |-> TRUE],
                       [kind |-> "B", closed |-> FALSE]>>
  /\ reader.buffer = Marker \o JSONstringify("B")
  /\ Len(reader.handled) = 1
  /\ reader.handled[1].name = "A"

\* C19 (reader release): the reader holds its lock while the loop runs and
\* has released it when readSSEStream has exited, whether the stream ended,
\* the loop threw or the request was aborted.
C19_ReaderReleased ==
  /\ reader.pc = "reading" => reader.locked
  /\ reader.pc = "exited" => ~reader.locked

C19_Witness ==
  /\ reader.pc = "exited"
  /\ reader.exit = "abort"
  /\ reader.pos > 0 /\ reader.pos < Len(reader.text)
  /\ reader.buffer # <<>>
  /\ ~reader.locked

\* C20 (deduplication): the step list never holds two steps with the same
\* message and model name; a status event whose message and model name
\* match a step of the list leaves the list as it was, any other that
\* reaches the updater is appended at the end; Classifying, Classifying,
\* Finding received in that order leave Classifying, Finding.
C20_NoDuplicateSteps ==
  /\ \A i, j \in DOMAIN statusSteps :
       (/\ statusSteps[i].message = statusSteps[j].message
        /\ statusSteps[i].modelName = statusSteps[j].modelName) => i = j
  /\ event.type = "status" =>
       IF ~event.reached THEN statusSteps = event.before
       ELSE IF \E i \in DOMAIN event.before : event.before[i] = event.step
              THEN statusSteps = event.before
              ELSE statusSteps = Append(event.before, event.step)
  /\ event.received = <<[message |-> "Classifying", modelName |-> "null"],
                        [message |-> "Classifying", modelName |-> "null"],
                        [message |-> "Finding", modelName |-> "null"]>>
       => statusSteps = <<[message |-> "Classifying", modelName |-> "null"],
                          [message |-> "Finding", modelName |-> "null"]>>

C20_Witness ==
  /\ event.type = "status"
  /\ event.received = <<[message |-> "Classifying", modelName |-> "null"],
                        [message |-> "Classifying", modelName |-> "null"],
                        [message |-> "Finding", modelName |-> "null"]>>
  /\ Len(statusSteps) = 2

\* C21 (terminal states are exclusive and final): to one chat request at
\* most one terminal outcome is ever applied, be it complete (a 'complete'
\* frame is processed), errored (an 'error' frame, a failed read, a failed
\* fetch) or cancelled (cancelRequest).
C21_OneTerminalOutcome ==
  \A c \in CallIds : Len(Request(c).outcomes) <= 1

\* The placeholder of request c is in the list and shown as thinking.
StillThinking(c) ==
  \E i \in DOMAIN messages :
    messages[i].id = ThinkingMessageId(c) /\ messages[i].isThinking

\* C22 (cancellation): right after cancelRequest has run on a request whose
\* stream was being read, the placeholder of that request carries the
\* cancellation notice and is not shown as thinking, the reader has
\* released its lock and readSSEStream has exited; and a request whose
\* signal is aborted reads no frame any more.
C22_CancelSettles ==
  /\ event.type = "cancel" /\ event.info.reading =>
       /\ \E i \in DOMAIN messages :
            /\ messages[i].id = ThinkingMessageId(event.c)
            /\ messages[i].content = CancelNotice
            /\ ~messages[i].isThinking
       /\ ~Request(event.c).locked
       /\ Request(event.c).exit = "abort"
  /\ \A c \in CallIds : Request(c).aborted => Request(c).pc # "reading"

\* The state of the request in progress: the placeholder reference, the
\* step list, the banner, the 20-second timer, the abort controller.
RequestState(c) ==
  <<thinkingMessageIdRef, statusSteps, statusBanner, statusTimerRef,
    Request(c).longer, abortControllerRef, Request(c).aborted>>

\* The tasks that belong to one request: a frame or the end of its stream,
\* its continuations and its timers.
RequestTasks == {"frame", "done", "fails", "usage", "loaded", "clear", "longer"}

\* C23 (session isolation): while the later request is in progress (its
\* POST or its stream is awaited), a task of the earlier request leaves the
\* state of the later one as it is.
C23_Isolation ==
  [][(/\ Request("b").pc \in {"fetch", "reading"}
      /\ event'.type \in RequestTasks
      /\ event'.c = "a")
       => RequestState("b")' = RequestState("b")]_vars

\* The stream of request c has started and failed: an 'error' frame was
\* handled or a read failed.
StreamFailed(c) ==
  /\ Request(c).exit # ""
  /\ \E i \in DOMAIN Request(c).outcomes : Request(c).outcomes[i] = "errored"

\* Nothing of any request is pending: no call, no stream, no continuation,
\* no timer.
Quiet ==
  \A c \in CallIds :
    /\ Request(c).pc \in {"idle", "returned"}
    /\ Request(c).usage = 0 /\ Request(c).load = 0 /\ Request(c).clears = 0
    /\ ~Request(c).longer

\* C24 (no stuck placeholder): when the stream of a request has failed and
\* nothing is pending any more, the placeholder of that request is not
\* shown as thinking.
C24_NoStuckPlaceholder ==
  \A c \in CallIds : Quiet /\ StreamFailed(c) => ~StillThinking(c)

\* The refresh the timer callback awaited has settled in this turn.
TimerResumed == event.type = "settle" /\ "timer" \in event.ws
\* The timer callback got null at once, without a network call.
TimerGotNull == event.type = "timer" /\ event.rc.kind = "null"

\* C25 as stated (proactive rescheduling): when the refresh the timer
\* callback awaited gives a bundle, a timer is pending that is due 5 minutes
\* before that bundle's expiry.
C25_AlwaysRescheduled ==
  TimerResumed /\ event.value # Null =>
    proactive.due = event.value.expires_at - FIVE_MINUTES

\* C25 (proactive rescheduling): when the refresh the timer callback awaited
\* gives a bundle whose access token expires more than 5 minutes ahead, a
\* timer is pending that is due 5 minutes before that expiry, and when the
\* bundle expires sooner no timer is pending; when the refresh gives null,
\* no timer is pending.
C25_Rescheduled ==
  /\ TimerResumed /\ event.value # Null =>
       proactive.due = IF event.value.expires_at - now > FIVE_MINUTES
                         THEN event.value.expires_at - FIVE_MINUTES
                         ELSE -1
  /\ (TimerResumed /\ event.value = Null) \/ TimerGotNull =>
       proactive.due = -1 /\ proactive.wait = 0

C25_Witness ==
  /\ TimerResumed
  /\ event.value # Null
  /\ storage.auth_tokens = event.value
  /\ proactive.due = event.value.expires_at - FIVE_MINUTES
  /\ proactive.due > now

\* The chat sends whose gateway call returned a 401 in this turn.
Got401 == {c \in Returns : event.ret[c].resp.status = "401"}

\* C26 (forced re-authentication): when the gateway call of a chat send has
\* returned a 401 (made by the gateway itself, the first response kept after
\* a failed refresh, or the response of the retry), the token store is
\* empty, the session-expired prompt is raised, the user is marked
\* unauthenticated and sendMessage has returned.
C26_ForcedReauthentication ==
  \A c \in Got401 :
    /\ storage = EmptyStorage
    /\ showSessionExpired
    /\ ~isAuthenticated
    /\ Request(c).pc = "returned"

C26_Witness ==
  \E c \in Got401 :
    /\ event.ret[c].resp.from = "second"
    /\ showSessionExpired
    /\ ~isAuthenticated

\* The bundle in the store has a refresh token and an access token that is
\* more than 5 minutes from expiry.
CurrentBundleAhead ==
  /\ storage.auth_tokens # Null
  /\ storage.auth_tokens.refresh_token # NoToken
  /\ storage.auth_tokens.expires_at - now > FIVE_MINUTES

\* C27 (proactive coverage): once the mount effect has run, whenever the
\* bundle in the store has a refresh token and an access token more than 5
\* minutes from expiry, a proactive timer is pending that is due 5 minutes
\* before that expiry.
C27_ProactiveCoverage ==
  mount.pc # "pending" /\ CurrentBundleAhead =>
    proactive.due = storage.auth_tokens.expires_at - FIVE_MINUTES

\* The fetches of the gateway that are in flight for a chat send.
InFlight == {c \in CallIds : calls[c].pc \in {"sent1", "sent2"}}

\* C28 (cancellation reaches the retry): every fetch in flight for a chat
\* send, the retry included, was given the caller's signal; a request whose
\* signal is aborted has no fetch in flight; and a gateway call whose
\* signal is aborted does not return the response of a retry.
C28_CancelReachesRetry ==
  /\ \A c \in InFlight : calls[c].signal = "own" /\ calls[c].carried
  /\ \A c \in CallIds : Request(c).aborted => c \notin InFlight
  /\ \A c \in Returns :
       Request(c).aborted => event.ret[c].resp.from # "second"

\* The signal was aborted while the call awaited the refresh after a 401;
\* the refresh gave a bundle and the call ended with the AbortError of the
\* retry.
C28_Witness ==
  /\ IsSettle
  /\ event.value # Null
  /\ \E c \in Returns :
       /\ Request(c).aborted
       /\ event.ret[c].phase = "post"
       /\ event.ret[c].resp = AbortError

\* C29 (no stale bundle): every fetch the gateway issues, first attempt or
\* retry, carries in its Authorization header the access token of the
\* bundle the token store holds when the fetch is issued.
C29_NoStaleBundle ==
  \A c \in Sends :
    /\ storage.auth_tokens # Null
    /\ event.sent[c].token = storage.auth_tokens.access_token
    /\ calls[c].tok = storage.auth_tokens.access_token

\* A retry is issued after a refresh that replaced the bundle the first
\* attempt was sent with.
C29_Witness ==
  \E c \in Sends :
    /\ IsSettle
    /\ event.sent[c].n = 2
    /\ calls[c].tok1 # calls[c].tok
    /\ calls[c].tok = storage.auth_tokens.access_token

\* The lines of a block, and the events its "data: " lines carry.
RECURSIVE LinesOf(_)
LinesOf(text) ==
  LET at == {i \in 1..Len(text) : text[i] = NL}
  IN IF at = {} THEN <<text>>
     ELSE LET i == CHOOSE k \in at : \A j \in at : k <= j
          IN <<SubSeq(text, 1, i - 1)>> \o LinesOf(SubSeq(text, i + 1, Len(text)))

PayloadsOf(text) ==
  LET decodable == SelectSeq(LinesOf(text),
                     LAMBDA l : startsWith(l, Marker) /\ JSONparses(substring(l, 6)))
  IN [i \in DOMAIN decodable |-> JSONparse(substring(decodable[i], 6))]

RECURSIVE PayloadsOfBlocks(_)
PayloadsOfBlocks(blocks) ==
  IF blocks = <<>> THEN <<>>
  ELSE PayloadsOf(BlockText(Head(blocks).kind)) \o PayloadsOfBlocks(Tail(blocks))

\* The events handed to handleSSEEvent as decoded from a payload.
DecodedEvents ==
  LET decoded == SelectSeq(reader.handled, LAMBDA h : h.type = "event")
  IN [i \in DOMAIN decoded |-> decoded[i].name]

\* C30 (payload location): when the stream has ended, the events decoded
\* and handed to handleSSEEvent are the JSON payloads of the "data: " lines
\* of the complete blocks, in order, whatever other lines (event:, id:)
\* stand before or after the "data: " line in its block.
C30_PayloadLocated ==
  reader.exit = "done" =>
    DecodedEvents = PayloadsOfBlocks(ClosedBlocks(reader.blocks))

\* The events the reader decodes from a block that is the whole stream.
DecodedAlone(kind) ==
  LET handled == ProcessChunk(<<>>, BlockText(kind) \o Delimiter).handled
      decoded == SelectSeq(handled, LAMBDA h : h.type = "event")
  IN [i \in DOMAIN decoded |-> decoded[i].name]

RECURSIVE DecodedOneByOne(_)
DecodedOneByOne(blocks) ==
  IF blocks = <<>> THEN <<>>
  ELSE DecodedAlone(Head(blocks).kind) \o DecodedOneByOne(Tail(blocks))

\* A block whose payload JSON.parse refused was handed over as an error.
BadFrameSeen ==
  \E i \in DOMAIN reader.handled :
    reader.handled[i].type = "error" /\ reader.handled[i].marked

\* C31 (one bad frame does not stop the stream): when the stream has ended,
\* the events decoded and handed to handleSSEEvent are those the complete
\* blocks give one by one, in order, whether or not a block before them
\* had a payload that failed to decode.
C31_BadFrameContained ==
  reader.exit = "done" =>
    DecodedEvents = DecodedOneByOne(ClosedBlocks(reader.blocks))

C31_Witness ==
  /\ reader.exit = "done"
  /\ reader.blocks = <<[kind |-> "broken", closed |-> TRUE],
                       [kind |-> "A", closed |-> TRUE]>>
  /\ BadFrameSeen
  /\ Len(reader.handled) = 2
  /\ reader.handled[1].type = "error"
  /\ reader.handled[2].type = "event" /\ reader.handled[2].name = "A"

\* Request c is active: it was sent, sendMessage has not returned and no
\* terminal outcome was applied to it.
Active(c) ==
  /\ Request(c).pc \in {"fetch", "reading"}
  /\ Request(c).outcomes = <<>>

\* C32 (step order): while a request is active the step list changes only
\* by a step appended at its end, so that its order is the order in which
\* the steps first arrived; it is never emptied, reordered or merged.
C32_AppendOnly ==
  [][(\E c \in CallIds : Active(c) /\ Active(c)') =>
       \/ statusSteps' = statusSteps
       \/ /\ Len(statusSteps') = Len(statusSteps) + 1
          /\ SubSeq(statusSteps', 1, Len(statusSteps)) = statusSteps]_vars


\* The two messages of a status event that only relabel the placeholder
ThinkingLabels == {"thinking", "thinking longer"}
\* The entries of two message lists agree except in the label of the
\* placeholder
SameButLabel(before, after) ==
  /\ Len(after) = Len(before)
  /\ \A i \in DOMAIN before :
       /\ DOMAIN after[i] = DOMAIN before[i]
       /\ \A f \in DOMAIN before[i] \ {"thinkingStatus"} :
            after[i][f] = before[i][f]
       /\ ~before[i].isThinking => after[i] = before[i]

\* C33: a status event whose message is 'thinking' or 'thinking longer'
\* changes nothing but the label of the placeholder, which becomes the
\* message while the placeholder is referenced: the step list and the banner
\* stay as they were, and the step list never holds a step with either
\* message.
C33_ThinkingOnlyRelabels ==
  /\ [][(event'.type = "status" /\ event'.step.message \in ThinkingLabels) =>
          /\ statusSteps' = statusSteps
          /\ statusBanner' = statusBanner
          /\ SameButLabel(messages, messages')
          /\ thinkingMessageIdRef # 0 =>
               \A i \in DOMAIN messages' :
                 messages'[i].isThinking =>
                   messages'[i].thinkingStatus = event'.step.message
          /\ UNCHANGED <<thinkingMessageIdRef, isLoading, isAuthenticated,
                         showSessionExpired, statusTimerRef,
                         abortControllerRef, chat, reader>>]_vars
  /\ [](\A i \in DOMAIN statusSteps :
          statusSteps[i].message \notin ThinkingLabels)
\* 'thinking longer' arrives after a step was listed: the list and its
\* banner are as the step left them and the placeholder carries the label.
C33_Witness ==
  /\ event.type = "status"
  /\ event.step.message = "thinking longer"
  /\ statusSteps = <<[message |-> "Classifying", modelName |-> "null"]>>
  /\ statusBanner # Null
  /\ statusBanner.messages = <<"Classifying">>
  /\ \E i \in DOMAIN messages :
       messages[i].isThinking /\ messages[i].thinkingStatus = "thinking longer"

\* sendMessage has returned for request c, or a terminal outcome was applied
\* to it
Ended(c) == Request(c).pc = "returned" \/ Request(c).outcomes # <<>>

\* C34: when the 20-second timer of a request fires it only sets the label
\* of the placeholder to 'thinking longer' and leaves the phase of the
\* request and the rest of the interface as they are, and it never fires
\* once the request has ended.
C34_TimerWithinRequest ==
  [][\A c \in CallIds :
       (event'.type = "longer" /\ event'.c = c) =>
         /\ ~Ended(c)
         /\ SameButLabel(messages, messages')
         /\ \A i \in DOMAIN messages' :
              messages'[i].thinkingStatus # messages[i].thinkingStatus =>
                messages'[i].thinkingStatus = "thinking longer"
         /\ Request(c)'.pc = Request(c).pc
         /\ UNCHANGED <<isLoading, isAuthenticated, showSessionExpired,
                        statusSteps, statusBanner, thinkingMessageIdRef,
                        abortControllerRef>>]_vars

\* C35: the handling of a 'complete' event leaves the accumulated steps and
\* their banner as they are, and they are emptied when the 2-second timer
\* the event sets fires.
C35_ShownUntilDelay ==
  /\ [][(event'.type = "complete" /\ statusSteps # <<>>) =>
          /\ statusSteps' = statusSteps
          /\ statusBanner' = statusBanner]_vars
  /\ [][event'.type = "reset" =>
          /\ statusSteps' = <<>>
          /\ statusBanner' = Null]_vars

\* The status event just handled appended a step to the list.
StepAppended ==
  /\ event.type = "status"
  /\ statusSteps = Append(event.before, event.step)

\* C36: right after a status event appended a step, the banner lists the
\* messages of all the steps of the list in their order and holds the list
\* as its steps, and its type is 'escalation' when the message of the step
\* tells of a retry with a stronger model and 'info' otherwise.
C36_BannerFollowsSteps ==
  StepAppended =>
    /\ statusBanner # Null
    /\ Len(statusBanner.messages) = Len(statusSteps)
    /\ \A i \in DOMAIN statusSteps :
         statusBanner.messages[i] = statusSteps[i].message
    /\ statusBanner.steps = statusSteps
    /\ statusBanner.type =
         (IF event.step.message = "trying stronger model"
            THEN "escalation" ELSE "info")
\* A step that tells of the stronger model is appended behind another one.
C36_Witness ==
  /\ StepAppended
  /\ Len(statusSteps) = 2
  /\ event.step.message = "trying stronger model"
  /\ statusBanner.type = "escalation"
  /\ statusBanner.messages = <<"Classifying", "trying stronger model">>

\* sendMessage is under way for request c.
Sending(c) == Request(c).pc \in {"fetch", "body", "reading"}

\* C37: when every network call settles, each sendMessage that was started
\* returns, and at its return isLoading is false and the reference to the
\* abort controller is cleared, whichever way it ends; so the loading state
\* is always left again.
C37_LeavesLoading ==
  /\ [][\A c \in CallIds :
          (Sending(c) /\ Request(c)'.pc = "returned") =>
            (~isLoading' /\ abortControllerRef' = 0)]_vars
  /\ \A c \in CallIds : Sending(c) ~> (Request(c).pc = "returned")
  /\ isLoading ~> ~isLoading
\* A request whose POST was answered with a limit error has returned.
C37_Witness ==
  /\ event.type = "body"
  /\ event.info = "limit"
  /\ Request(event.c).pc = "returned"
  /\ ~isLoading
  /\ abortControllerRef = 0

\* C38: at no time are two chat requests under way, that is awaiting the
\* answer to their POST or reading their stream.
C38_OneRequestAtATime ==
  \A c, d \in CallIds : (Sending(c) /\ Sending(d)) => c = d
====
